---- MODULE Spec2Model ----
(***************************************************************************)
(* Insight generation of the customer-experience analytics pipeline:       *)
(* InsightsGenerator.identify_drivers / identify_pain_points /             *)
(* generate_recommendations (src/src/insights/insights_generator.py) as    *)
(* driven for one bank by InsightsPipeline.generate_insights_for_all_banks *)
(* (src/src/pipeline/insights_pipeline.py).                                *)
(* SpecBanks adds the table of all banks (generate_insights_for_all_banks  *)
(* over every bank, compare_banks), SpecPreprocess adds                    *)
(* DataPreprocessor.preprocess (src/src/data_processing/preprocessor.py).  *)
(*                                                                         *)
(* Numbers: a rating is an integer 1..5, a sentiment score is held in      *)
(* tenths (0..10), a weight in hundredths (0..100).  A strength or         *)
(* severity is the exact rational <<num, den>> = score / count.            *)
(***************************************************************************)
EXTENDS Integers, Sequences, FiniteSets, TLC

VARIABLES bank_df, pc, drivers, pain_points, recommendations, previous,
          all_df, columns, bank_reviews, all_insights, comparison, set_order,
          raw_df, processed, remove_duplicates,
          raw_text, cleaned_text,
          max_reviews, retry_attempts, lc, fetched, token, attempts,
          all_reviews, scraped, failures,
          connection, conn, open_conns, conn_count, op, exc, body_done,
          commit_called, rolled_back, raised, banks_table, tx_banks,
          reviews_table, tx_reviews, bank_seq, bank_cache, bank_mapping,
          config, reviews_data, insert_size, idx, total_inserted, retval,
          mappings, calls,
          raw_data, processed_data, quality_metrics, raw_file,
          processed_file, called, error

\* The table of all banks and what is computed from it.
bankVars == <<all_df, columns, bank_reviews, all_insights, comparison, set_order>>

\* The table given to DataPreprocessor.preprocess, its result, and the flag
\* of the preprocessor.
prepVars == <<raw_df, processed, remove_duplicates>>

\* The argument and the result of a call of DataPreprocessor.clean_text.
cleanVars == <<raw_text, cleaned_text>>

\* The variables of the other components, which the insight generation and
\* the preprocessing of a table leave alone.
\* PlayStoreScraper: its two limits, the locals of scrape_reviews, the table
\* it returns, and the number of failed requests in a row in the current
\* language loop.
scraperVars ==
  <<max_reviews, retry_attempts, lc, fetched, token, attempts, all_reviews,
    scraped, failures>>

\* DatabaseConnection and DatabaseLoader: self.connection, the local conn of
\* get_connection, the connections open at the server, the operation under
\* way with its locals and its outcome, the two tables as committed and as
\* the open transaction sees them, the sequence behind bank_id, bank_cache,
\* the configuration, the mappings load_banks has returned, and the number
\* of calls made.
dbVars ==
  <<connection, conn, open_conns, conn_count, op, exc, body_done,
    commit_called, rolled_back, raised, banks_table, tx_banks, reviews_table,
    tx_reviews, bank_seq, bank_cache, bank_mapping, config, reviews_data,
    insert_size, idx, total_inserted, retval, mappings, calls>>

\* DataCollectionPipeline: its three stores, the two files it writes, the
\* method called last and the exception that call ended with.
pipeVars ==
  <<raw_data, processed_data, quality_metrics, raw_file, processed_file,
    called, error>>

laterVars == <<cleanVars, scraperVars, dbVars, pipeVars>>

\* The variables of the insight generation for one bank.
insightVars == <<bank_df, drivers, pain_points, recommendations, previous>>

vars ==
  <<bank_df, pc, drivers, pain_points, recommendations, previous, bankVars,
    prepVars, laterVars>>

\* ---------------------------------------------------------------- bounds
\* Number of load steps that build the review table of the bank.
MaxBatches == 2

\* ------------------------------------------------------------- constants
\* Python's None, for an absent rating or sentiment score.
None == -1
\* "if data['count'] >= 5:  # Minimum mentions threshold"
MinMentions == 5
\* "drivers[:5]" / "pain_points[:5]"
TopN == 5
\* "pain_points[:3]"
TopPainPoints == 3
\* "list(missing_drivers)[:2]"
TopOpportunities == 2
\* "[:100]" of the example text
ExampleLen == 100
\* "len(...['examples']) < 3"
MaxExamples == 3

\* ------------------------------------------------------------- taxonomy
\* The keys of self.drivers_keywords, in dict (insertion) order.
DriverTypes == <<"fast", "easy", "reliable", "secure", "features", "support">>

drivers_keywords ==
  [fast     |-> <<"fast", "quick", "speed", "instant", "rapid", "swift">>,
   easy     |-> <<"easy", "simple", "convenient", "user-friendly", "intuitive">>,
   reliable |-> <<"reliable", "stable", "consistent", "dependable", "trustworthy">>,
   secure   |-> <<"secure", "safe", "protected", "security">>,
   features |-> <<"feature", "function", "tool", "option", "capability">>,
   support  |-> <<"support", "help", "service", "assistance", "customer service">>]

\* The keys of self.pain_point_keywords, in dict (insertion) order.
PainTypes == <<"crashes", "slow", "login", "transaction", "network", "ui">>

pain_point_keywords ==
  [crashes     |-> <<"crash", "freeze", "hang", "error", "bug", "glitch">>,
   slow        |-> <<"slow", "lag", "delay", "wait", "loading", "timeout">>,
   login       |-> <<"login", "password", "authentication", "access", "sign in">>,
   transaction |-> <<"transaction", "payment", "transfer", "failed", "declined">>,
   network     |-> <<"network", "connection", "internet", "connectivity", "offline">>,
   ui          |-> <<"interface", "design", "layout", "navigation", "confusing", "complicated">>]

\* ----------------------------------------------------------- text helpers
Min(a, b) == IF a <= b THEN a ELSE b

Range(s) == {s[i] : i \in 1..Len(s)}

\* The upper-case letters the review texts use, with their lower case.
UpperToLower ==
  [c \in {"F", "G", "Q"} |->
     CASE c = "F" -> "f" [] c = "G" -> "g" [] c = "Q" -> "q"]

\* str.lower()
RECURSIVE Lower(_)
Lower(s) ==
  IF Len(s) = 0 THEN ""
  ELSE LET c == SubSeq(s, 1, 1)
       IN (IF c \in DOMAIN UpperToLower THEN UpperToLower[c] ELSE c)
            \o Lower(SubSeq(s, 2, Len(s)))

\* "keyword in text": substring containment
Contains(text, keyword) ==
  \E i \in 1..(Len(text) - Len(keyword) + 1) :
     SubSeq(text, i, i + Len(keyword) - 1) = keyword

\* text[:100]
Truncate(text) == SubSeq(text, 1, Min(Len(text), ExampleLen))

\* ------------------------------------------------------------ review rows
Row(text, rating, label, score) ==
  [review_text |-> text, rating |-> rating, sentiment_label |-> label,
   sentiment_score |-> score]

\* The review rows a table is built from (sentiment_score in tenths).
Rows ==
  {Row("login is broken", 1, "negative", 9),
   Row("Fast app but login failed", 4, "negative", 9),
   Row("Fast and simple", 5, "positive", 9),
   Row("Great customer service", 4, "negative", 5),
   Row("fast easy safe stable tool help", 5, "positive", 10),
   Row("bug, lag, login password", 2, "positive", None),
   Row("Quick transfer", None, "positive", 10),
   Row("slow app", 3, "neutral", 0)}

\* How many identical rows one load step appends: one, or as many as the
\* mention threshold, or one more.
CopyCounts == {1, MinMentions, MinMentions + 1}

\* n copies of row r
Copies(r, n) == [i \in 1..n |-> r]

\* Number of maximal runs of equal rows in df.
NumRuns(df) ==
  Cardinality({i \in 1..Len(df) : i = 1 \/ df[i] # df[i - 1]})

\* ------------------------------------------------------------ subsets
\* (df['rating'] >= 4) | (df['sentiment_label'] == 'positive');
\* a comparison with an absent rating is False.
\* The positive subset taken with "and" in place of "or".
IsPositiveBoth(r) ==
  (r.rating # None /\ r.rating >= 4) /\ r.sentiment_label = "positive"

IsPositive(r) ==
  (r.rating # None /\ r.rating >= 4) \/ r.sentiment_label = "positive"

\* (df['rating'] <= 2) | (df['sentiment_label'] == 'negative')
IsNegative(r) ==
  (r.rating # None /\ r.rating <= 2) \/ r.sentiment_label = "negative"

PositiveDf(df) == SelectSeq(df, IsPositive)

NegativeDf(df) == SelectSeq(df, IsNegative)

\* ------------------------------------------------------------ weights
\* identify_drivers: rating defaults to 0.0, sentiment_score to 0.5
DriverRating(r) == IF r.rating # None THEN r.rating ELSE 0

\* identify_pain_points: rating defaults to 3.0
PainRating(r) == IF r.rating # None THEN r.rating ELSE 3

\* sentiment_score in tenths, 0.5 when absent
SentimentScore(r) == IF r.sentiment_score # None THEN r.sentiment_score ELSE 5

\* weight = (rating / 5.0) * 0.5 + sentiment_score * 0.5, in hundredths
DriverWeight(r) == DriverRating(r) * 10 + SentimentScore(r) * 5

\* weight = ((5 - rating) / 5.0) * 0.5 + (1 - sentiment_score) * 0.5, in hundredths
PainWeight(r) == (5 - PainRating(r)) * 10 + (10 - SentimentScore(r)) * 5

\* The example stored for a hit of row r, with the rating the loop computed.
Example(r, rating) ==
  [text |-> Truncate(r.review_text), rating |-> rating,
   sentiment |-> r.sentiment_label]

\* ------------------------------------------------------------ the scan
\* scores: the dict driver_scores / pain_point_scores as the sequence of its
\* entries in insertion order, each [type, score, count, examples].
HasType(scores, type) == \E i \in 1..Len(scores) : scores[i].type = type

\* "for keyword in keywords: if keyword in text:": the number of times the
\* body runs for one row and one type.  The loop has no break, so the body
\* runs once for every keyword of the type that the text contains.
KeywordHits(text, keywords) ==
  Cardinality({k \in 1..Len(keywords) : Contains(text, keywords[k])})

\* The examples list after n more hits of the same row: an example is
\* appended on a hit while the list holds fewer than 3.
RECURSIVE AppendExamples(_, _, _)
AppendExamples(examples, example, n) ==
  IF n = 0 \/ Len(examples) >= MaxExamples THEN examples
  ELSE AppendExamples(Append(examples, example), example, n - 1)

\* The entry of a type after the body of "if keyword in text:" ran n times
\* for one row: score += weight and count += 1 each time.
AddHits(entry, n, weight, example) ==
  [type     |-> entry.type,
   score    |-> entry.score + n * weight,
   count    |-> entry.count + n,
   examples |-> AppendExamples(entry.examples, example, n)]

\* "for driver_type, keywords in self.<taxonomy>.items():" for one row: the
\* types are visited in dict order, a type hit for the first time gets its
\* entry appended to scores, and every type hit is updated.
ScanRow(scores, text, types, keywordsOf, weight, example) ==
  LET hits == [t \in Range(types) |-> KeywordHits(text, keywordsOf[t])]
      IsNew(t) == hits[t] > 0 /\ ~HasType(scores, t)
      fresh == SelectSeq(types, IsNew)
      all == scores \o [i \in 1..Len(fresh) |->
                          [type |-> fresh[i], score |-> 0, count |-> 0,
                           examples |-> <<>>]]
  IN [i \in 1..Len(all) |->
        AddHits(all[i], hits[all[i].type], weight, example)]

\* "for _, row in positive_df.iterrows():" of identify_drivers, up to row i
RECURSIVE ScanDriverRows(_, _)
ScanDriverRows(rows, i) ==
  IF i = 0 THEN <<>>
  ELSE ScanRow(ScanDriverRows(rows, i - 1), Lower(rows[i].review_text),
               DriverTypes, drivers_keywords, DriverWeight(rows[i]),
               Example(rows[i], DriverRating(rows[i])))

\* "for _, row in negative_df.iterrows():" of identify_pain_points, up to row i
RECURSIVE ScanPainRows(_, _)
ScanPainRows(rows, i) ==
  IF i = 0 THEN <<>>
  ELSE ScanRow(ScanPainRows(rows, i - 1), Lower(rows[i].review_text),
               PainTypes, pain_point_keywords, PainWeight(rows[i]),
               Example(rows[i], PainRating(rows[i])))

\* ------------------------------------------------------------ aggregation
\* min(data['score'] / data['count'], 1.0) as the rational <<num, den>>
MeanCapped(score, count) == <<Min(score, 100 * count), 100 * count>>

\* a < b for rationals with positive denominators
RatLess(a, b) == a[1] * b[2] < b[1] * a[2]

RatEq(a, b) == a[1] * b[2] = b[1] * a[2]

\* list.sort(key=..., reverse=True) on <<key, element>> pairs: stable, descending.
\* InsertDesc puts e after every element whose key is not smaller than its own.
RECURSIVE InsertDesc(_, _)
InsertDesc(sorted, e) ==
  IF Len(sorted) = 0 THEN <<e>>
  ELSE IF RatLess(Head(sorted)[1], e[1]) THEN <<e>> \o sorted
  ELSE <<Head(sorted)>> \o InsertDesc(Tail(sorted), e)

RECURSIVE SortDesc(_)
SortDesc(s) ==
  IF Len(s) = 0 THEN <<>>
  ELSE InsertDesc(SortDesc(SubSeq(s, 1, Len(s) - 1)), s[Len(s)])

\* The driver list left in the order of the dict.
SortByStrengthSkipped(list) == list

\* drivers.sort(key=lambda x: x['strength'], reverse=True)
SortByStrength(list) ==
  LET sorted == SortDesc([i \in 1..Len(list) |-> <<list[i].strength, list[i]>>])
  IN [i \in 1..Len(list) |-> sorted[i][2]]

\* pain_points.sort(key=lambda x: x['severity'], reverse=True)
SortBySeverity(list) ==
  LET sorted == SortDesc([i \in 1..Len(list) |-> <<list[i].severity, list[i]>>])
  IN [i \in 1..Len(list) |-> sorted[i][2]]

\* s[:n]
Take(s, n) == SubSeq(s, 1, Min(Len(s), n))

\* Any category that was hit at all qualifies.
QualifiesAnyCount(data) == data.count >= 1

Qualifies(data) == data.count >= MinMentions

DriverEntry(data, evidence) ==
  [type |-> data.type, strength |-> MeanCapped(data.score, data.count),
   mentions |-> data.count, evidence_count |-> evidence,
   examples |-> data.examples]

PainEntry(data, evidence) ==
  [type |-> data.type, severity |-> MeanCapped(data.score, data.count),
   mentions |-> data.count, evidence_count |-> evidence,
   examples |-> data.examples]

driver_scores(df) == ScanDriverRows(PositiveDf(df), Len(PositiveDf(df)))

pain_point_scores(df) == ScanPainRows(NegativeDf(df), Len(NegativeDf(df)))

\* identify_drivers returning None, not [], for an empty positive subset.
identify_drivers_null(df) ==
  LET positive_df == PositiveDf(df)
      kept == SelectSeq(driver_scores(df), Qualifies)
      list == [i \in 1..Len(kept) |-> DriverEntry(kept[i], Len(positive_df))]
  IN IF Len(positive_df) = 0 THEN <<None>>
     ELSE Take(SortByStrength(list), TopN)

\* identify_drivers cut to the top 3 instead of the top 5.
identify_drivers_top3(df) ==
  LET positive_df == PositiveDf(df)
      kept == SelectSeq(driver_scores(df), Qualifies)
      list == [i \in 1..Len(kept) |-> DriverEntry(kept[i], Len(positive_df))]
  IN IF Len(positive_df) = 0 THEN <<>>
     ELSE Take(SortByStrength(list), 3)

identify_drivers(df) ==
  LET positive_df == PositiveDf(df)
      kept == SelectSeq(driver_scores(df), Qualifies)
      list == [i \in 1..Len(kept) |-> DriverEntry(kept[i], Len(positive_df))]
  IN IF Len(positive_df) = 0 THEN <<>>
     ELSE Take(SortByStrength(list), TopN)

identify_pain_points(df) ==
  LET negative_df == NegativeDf(df)
      kept == SelectSeq(pain_point_scores(df), Qualifies)
      list == [i \in 1..Len(kept) |-> PainEntry(kept[i], Len(negative_df))]
  IN IF Len(negative_df) = 0 THEN <<>>
     ELSE Take(SortBySeverity(list), TopN)

\* ------------------------------------------------------- recommendations
\* recommendations_map of _get_recommendation_for_pain_point
recommendations_map ==
  [crashes |->
     [title |-> "Improve App Stability",
      description |-> "Address app crashes and bugs through comprehensive testing and error handling",
      priority |-> "High",
      impact |-> "Reduces user frustration and negative reviews"],
   slow |->
     [title |-> "Optimize Performance",
      description |-> "Improve app speed and reduce loading times through code optimization and caching",
      priority |-> "High",
      impact |-> "Enhances user experience and satisfaction"],
   login |->
     [title |-> "Enhance Authentication System",
      description |-> "Simplify login process and add biometric authentication options",
      priority |-> "Medium",
      impact |-> "Reduces login-related complaints"],
   transaction |->
     [title |-> "Improve Transaction Reliability",
      description |-> "Enhance payment processing and add transaction status notifications",
      priority |-> "High",
      impact |-> "Critical for user trust and app functionality"],
   network |->
     [title |-> "Add Offline Capabilities",
      description |-> "Implement offline mode and better error handling for network issues",
      priority |-> "Medium",
      impact |-> "Improves app usability in poor network conditions"],
   ui |->
     [title |-> "Redesign User Interface",
      description |-> "Simplify navigation and improve visual design based on user feedback",
      priority |-> "Medium",
      impact |-> "Enhances overall user experience"]]

\* opportunities_map of _get_recommendation_for_opportunity
opportunities_map ==
  [fast |->
     [title |-> "Add Performance Optimization Features",
      description |-> "Implement caching and optimize app performance to improve speed",
      priority |-> "Medium",
      impact |-> "Could become a key differentiator"],
   easy |->
     [title |-> "Improve User Onboarding",
      description |-> "Create tutorials and simplify initial setup process",
      priority |-> "Medium",
      impact |-> "Reduces learning curve for new users"],
   reliable |->
     [title |-> "Enhance App Reliability",
      description |-> "Invest in testing and monitoring to improve app stability",
      priority |-> "High",
      impact |-> "Builds user trust and reduces complaints"],
   secure |->
     [title |-> "Strengthen Security Features",
      description |-> "Add two-factor authentication and security notifications",
      priority |-> "High",
      impact |-> "Critical for financial app user trust"],
   features |->
     [title |-> "Add Budgeting Tools",
      description |-> "Implement expense tracking and budgeting features",
      priority |-> "Low",
      impact |-> "Differentiates from competitors"],
   support |->
     [title |-> "Enhance Customer Support",
      description |-> "Add in-app chat support and improve response times",
      priority |-> "Medium",
      impact |-> "Improves customer satisfaction"]]

\* The pain-point recommendation with its priority computed from severity and
\* mentions instead of taken from the template.
PainPointRecommendationScored(pain_point) ==
  LET t == recommendations_map[pain_point.type]
  IN [title |-> t.title, description |-> t.description,
      priority |-> IF \/ pain_point.severity[1] * 4 > pain_point.severity[2]
                      \/ pain_point.mentions > 30
                   THEN "High" ELSE "Medium",
      impact |-> t.impact,
      evidence |-> ToString(pain_point.mentions) \o " mentions in negative reviews",
      severity |-> pain_point.severity]

\* The recommendation for one pain point: the template of its type, with
\* rec['evidence'] and rec['severity'] added.
PainPointRecommendation(pain_point) ==
  LET t == recommendations_map[pain_point.type]
  IN [title |-> t.title, description |-> t.description,
      priority |-> t.priority, impact |-> t.impact,
      evidence |-> ToString(pain_point.mentions) \o " mentions in negative reviews",
      severity |-> pain_point.severity]

\* The recommendation for one missing driver type: the template, with
\* rec['opportunity'] = True added.
OpportunityRecommendation(opportunity_type) ==
  LET t == opportunities_map[opportunity_type]
  IN [title |-> t.title, description |-> t.description,
      priority |-> t.priority, impact |-> t.impact, opportunity |-> TRUE]

\* all_driver_types - existing_driver_types
MissingDrivers(drvs) ==
  Range(DriverTypes) \ {drvs[i].type : i \in 1..Len(drvs)}

\* list(missing_drivers)[:2]: a set is iterated in the order of the string
\* hashes of the interpreter process, so any two distinct elements, in either
\* order, can come first.
OpportunityPicks(missing) ==
  {pick \in UNION {[1..n -> missing] : n \in 0..TopOpportunities} :
     /\ Len(pick) = Min(Cardinality(missing), TopOpportunities)
     /\ \A i, j \in 1..Len(pick) : i # j => pick[i] # pick[j]}

\* generate_recommendations with the opportunities put before the pain points.
generate_recommendations_opportunities_first(drvs, pains, pick) ==
  LET top == Take(pains, TopPainPoints)
  IN [i \in 1..Len(pick) |-> OpportunityRecommendation(pick[i])]
       \o [i \in 1..Len(top) |-> PainPointRecommendation(top[i])]

\* generate_recommendations, with pick the first elements of list(missing_drivers)
generate_recommendations(drvs, pains, pick) ==
  LET top == Take(pains, TopPainPoints)
  IN [i \in 1..Len(top) |-> PainPointRecommendation(top[i])]
       \o [i \in 1..Len(pick) |-> OpportunityRecommendation(pick[i])]

\* ------------------------------------------------------------ actions
\* Nothing of the table of all banks is held.
NoBanks ==
  /\ all_df = <<>>
  /\ columns = {}
  /\ bank_reviews = <<>>
  /\ all_insights = <<>>
  /\ comparison = <<>>
  /\ set_order = <<>>

\* No call of clean_text is under way.
NoCleaning ==
  /\ raw_text = <<>>
  /\ cleaned_text = ""

\* No scraper exists.
NoScraping ==
  /\ max_reviews = 0
  /\ retry_attempts = 0
  /\ lc = 0
  /\ fetched = <<>>
  /\ token = <<>>
  /\ attempts = 0
  /\ all_reviews = <<>>
  /\ scraped = <<>>
  /\ failures = 0

\* No database operation has been made: DatabaseConnection.__init__ and
\* DatabaseLoader.__init__ on a server without tables' contents.
NoDatabase ==
  /\ connection = None
  /\ conn = None
  /\ open_conns = {}
  /\ conn_count = 0
  /\ op = "none"
  /\ exc = "none"
  /\ body_done = FALSE
  /\ commit_called = FALSE
  /\ rolled_back = FALSE
  /\ raised = "none"
  /\ banks_table = <<>>
  /\ tx_banks = <<>>
  /\ reviews_table = <<>>
  /\ tx_reviews = <<>>
  /\ bank_seq = 1
  /\ bank_cache = <<>>
  /\ bank_mapping = <<>>
  /\ config = <<>>
  /\ reviews_data = <<>>
  /\ insert_size = 1
  /\ idx = 0
  /\ total_inserted = 0
  /\ retval = <<>>
  /\ mappings = <<>>
  /\ calls = 0

\* No DataCollectionPipeline has been used: the stores of __init__.
NoPipeline ==
  /\ raw_data = <<>>
  /\ processed_data = <<>>
  /\ quality_metrics = <<>>
  /\ raw_file = <<>>
  /\ processed_file = <<>>
  /\ called = "none"
  /\ error = "none"

\* The other components are idle.
NoLater == NoCleaning /\ NoScraping /\ NoDatabase /\ NoPipeline

\* No insight generation is under way.
NoInsights ==
  /\ bank_df = <<>>
  /\ drivers = <<>>
  /\ pain_points = <<>>
  /\ recommendations = <<>>
  /\ previous = <<>>

\* No table is being preprocessed.
NoPreprocessing ==
  /\ raw_df = <<>>
  /\ processed = <<>>
  /\ remove_duplicates = TRUE

Init ==
  /\ bank_df = <<>>
  /\ pc = "load"
  /\ drivers = <<>>
  /\ pain_points = <<>>
  /\ recommendations = <<>>
  /\ previous = <<>>
  /\ NoBanks
  /\ NoPreprocessing
  /\ NoLater

\* The table of the bank's reviews is read, n equal rows at a time.
LoadData(r, n) ==
  /\ pc = "load"
  /\ IF Len(bank_df) = 0 THEN TRUE
     ELSE NumRuns(bank_df) < MaxBatches /\ bank_df[Len(bank_df)] # r
  /\ bank_df' = bank_df \o Copies(r, n)
  /\ UNCHANGED <<pc, drivers, pain_points, recommendations, previous, bankVars, prepVars, laterVars>>

\* drivers = self.insights_generator.identify_drivers(bank_df, bank)
IdentifyDrivers ==
  /\ pc = "load"
  /\ Len(bank_df) > 0
  /\ drivers' = identify_drivers(bank_df)
  /\ pc' = "pain_points"
  /\ UNCHANGED <<bank_df, pain_points, recommendations, previous, bankVars, prepVars, laterVars>>

\* pain_points = self.insights_generator.identify_pain_points(bank_df, bank)
IdentifyPainPoints ==
  /\ pc = "pain_points"
  /\ pain_points' = identify_pain_points(bank_df)
  /\ pc' = "recommendations"
  /\ UNCHANGED <<bank_df, drivers, recommendations, previous, bankVars, prepVars, laterVars>>

\* recommendations = self.insights_generator.generate_recommendations(...)
GenerateRecommendations ==
  /\ pc = "recommendations"
  /\ \E pick \in OpportunityPicks(MissingDrivers(drivers)) :
        recommendations' = generate_recommendations(drivers, pain_points, pick)
  /\ pc' = "done"
  /\ UNCHANGED <<bank_df, drivers, pain_points, previous, bankVars, prepVars, laterVars>>

Next ==
  \/ \E r \in Rows, n \in CopyCounts : LoadData(r, n)
  \/ IdentifyDrivers
  \/ IdentifyPainPoints
  \/ GenerateRecommendations

Spec == Init /\ [][Next]_vars

\* The insights of the bank as stored in all_insights[bank].
Insights ==
  [drivers |-> drivers, pain_points |-> pain_points,
   recommendations |-> recommendations]

\* The script is run again, in a new interpreter process, on the same table:
\* the insights of the finished run are kept for comparison.
Rerun ==
  /\ pc = "done"
  /\ Len(previous) = 0
  /\ previous' = <<Insights>>
  /\ pc' = "load"
  /\ drivers' = <<>>
  /\ pain_points' = <<>>
  /\ recommendations' = <<>>
  /\ UNCHANGED <<bank_df, bankVars, prepVars, laterVars>>

\* The table has been loaded: some number of equal rows.
InitRerun ==
  /\ bank_df \in {Copies(r, n) : r \in Rows, n \in CopyCounts}
  /\ pc = "load"
  /\ drivers = <<>>
  /\ pain_points = <<>>
  /\ recommendations = <<>>
  /\ previous = <<>>
  /\ NoBanks
  /\ NoPreprocessing
  /\ NoLater

NextRerun ==
  \/ IdentifyDrivers
  \/ IdentifyPainPoints
  \/ GenerateRecommendations
  \/ Rerun

\* The analysis of a loaded table, run twice.
SpecRerun == InitRerun /\ [][NextRerun]_vars

\* ------------------------------------------------ the table of all banks
\* The banks whose reviews the table holds.
Banks == {"CBE", "BOA"}

\* The reviews a load step can bring for a bank.
BankRows ==
  {Row("login is broken", 1, "negative", 9),
   Row("Fast and simple", 5, "positive", 9),
   Row("Quick transfer", None, "positive", 10),
   Row("slow app", 3, "neutral", 0)}

\* How many equal reviews a load step brings for a bank.
BankCopyCounts == {1, MinMentions}

\* A row of the joined table: the review with its bank_name column.
BankRow(bank, r) ==
  [bank_name |-> bank, review_text |-> r.review_text, rating |-> r.rating,
   sentiment_label |-> r.sentiment_label, sentiment_score |-> r.sentiment_score]

\* The columns of the query result of load_data_from_database.
AllColumns ==
  {"bank_name", "review_text", "rating", "sentiment_label", "sentiment_score"}

\* The columns the loaded table can have: all of them, or, for a CSV file
\* written without them, all but the rating or all but the sentiment label.
\* The values of a column the table does not have are never read.
ColumnSets ==
  {AllColumns, AllColumns \ {"rating"}, AllColumns \ {"sentiment_label"}}

\* df['rating'] and df['sentiment_label'] of the two filters raise KeyError
\* when the table lacks the column.
FilterRaises(cols) == ~({"rating", "sentiment_label"} \subseteq cols)

\* df[bank_col].unique()
UniqueBanks(table) == {table[i].bank_name : i \in 1..Len(table)}

\* df[df[bank_col] == bank] taken without the comparison: the whole table.
BankDfUnfiltered(table, bank) == table

\* df[df[bank_col] == bank].copy()
BankDf(table, bank) == SelectSeq(table, LAMBDA row : row.bank_name = bank)

\* The orders in which one interpreter process may iterate a set of driver
\* types: fixed within the process, different between processes.
SetOrders ==
  {DriverTypes,
   [i \in 1..Len(DriverTypes) |-> DriverTypes[Len(DriverTypes) + 1 - i]],
   <<"reliable", "support", "fast", "features", "easy", "secure">>}

\* list(missing_drivers)[:2] in the process's iteration order
ListOfSet(S, order) == SelectSeq(order, LAMBDA t : t \in S)

RECURSIVE SeqSum(_)
SeqSum(s) == IF Len(s) = 0 THEN 0 ELSE s[1] + SeqSum(Tail(s))

\* bank_df['rating'].apply(lambda x: float(x) if x is not None else 0.0)
RatingAsFloat(table) ==
  [i \in 1..Len(table) |->
     IF table[i].rating # None THEN table[i].rating ELSE 0]

\* Series.mean(), as the exact rational <<sum, count>>
Mean(series) == <<SeqSum(series), Len(series)>>

\* (bank_df['sentiment_label'] == label).sum() / total * 100
\*   if 'sentiment_label' in bank_df.columns and total > 0 else 0.0,
\* as the exact rational <<num, den>>
SentimentPct(table, cols, label) ==
  LET total == Len(table)
  IN IF "sentiment_label" \in cols /\ total > 0
     THEN <<Cardinality({i \in 1..total : table[i].sentiment_label = label}) * 100,
            total>>
     ELSE <<0, 1>>

\* {int(k): int(v) for k, v in bank_df['rating'].value_counts().to_dict().items()}
RatingDistribution(series) ==
  [k \in Range(series) |-> Cardinality({i \in 1..Len(series) : series[i] = k})]

\* The 'stats' entry of all_insights[bank]
BankStats(table, cols) ==
  [total_reviews |-> Len(table),
   average_rating |->
     IF "rating" \in cols THEN Mean(RatingAsFloat(table)) ELSE <<0, 1>>,
   positive_pct |-> SentimentPct(table, cols, "positive"),
   negative_pct |-> SentimentPct(table, cols, "negative")]

\* comparison[bank] of compare_banks
BankComparison(table, cols) ==
  [total_reviews |-> Len(table),
   average_rating |->
     IF "rating" \in cols THEN Mean(RatingAsFloat(table)) ELSE <<0, 1>>,
   positive_sentiment_pct |-> SentimentPct(table, cols, "positive"),
   negative_sentiment_pct |-> SentimentPct(table, cols, "negative"),
   neutral_sentiment_pct |-> SentimentPct(table, cols, "neutral"),
   rating_distribution |->
     IF "rating" \in cols THEN RatingDistribution(RatingAsFloat(table))
     ELSE <<>>]

\* compare_banks
compare_banks(table, cols) ==
  [bank \in UniqueBanks(table) |-> BankComparison(BankDf(table, bank), cols)]

\* The body of the loop of generate_insights_for_all_banks for one bank
BankInsights(table, cols, bank, order) ==
  LET rows == BankDf(table, bank)
      drvs == identify_drivers(rows)
      pains == identify_pain_points(rows)
      pick == Take(ListOfSet(MissingDrivers(drvs), order), TopOpportunities)
  IN [drivers |-> drvs,
      pain_points |-> pains,
      recommendations |-> generate_recommendations(drvs, pains, pick),
      stats |-> BankStats(rows, cols)]

\* The interpreter process starts: nothing is loaded, the iteration order of
\* its sets of strings is fixed.
InitBanks ==
  /\ bank_df = <<>>
  /\ pc = "load"
  /\ drivers = <<>>
  /\ pain_points = <<>>
  /\ recommendations = <<>>
  /\ previous = <<>>
  /\ all_df = <<>>
  /\ columns \in ColumnSets
  /\ bank_reviews = [bank \in Banks |-> <<>>]
  /\ all_insights = <<>>
  /\ comparison = <<>>
  /\ set_order \in SetOrders
  /\ NoPreprocessing
  /\ NoLater

\* The query result is read, ordered by review date: the next n rows are
\* equal reviews of one bank.
LoadReviews(bank, r, n) ==
  /\ pc = "load"
  /\ IF Len(all_df) = 0 THEN TRUE
     ELSE NumRuns(all_df) < MaxBatches /\ all_df[Len(all_df)] # BankRow(bank, r)
  /\ all_df' = all_df \o Copies(BankRow(bank, r), n)
  /\ bank_reviews' = [bank_reviews EXCEPT ![bank] = @ \o Copies(r, n)]
  /\ UNCHANGED <<pc, columns, all_insights, comparison, set_order>>
  /\ UNCHANGED <<bank_df, drivers, pain_points, recommendations, previous, prepVars, laterVars>>

\* One pass of the loop of generate_insights_for_all_banks, for a bank of
\* the table not analysed yet; an exception of identify_drivers leaves the
\* loop and run() raises it again.
AnalyzeBank(bank) ==
  /\ pc \in {"load", "insights"}
  /\ bank \in UniqueBanks(all_df) \ DOMAIN all_insights
  /\ IF FilterRaises(columns)
     THEN /\ pc' = "raised"
          /\ UNCHANGED all_insights
     ELSE /\ all_insights' =
               all_insights @@ (bank :> BankInsights(all_df, columns, bank, set_order))
          /\ pc' = "insights"
  /\ UNCHANGED <<all_df, columns, bank_reviews, comparison, set_order>>
  /\ UNCHANGED <<bank_df, drivers, pain_points, recommendations, previous, prepVars, laterVars>>

\* comparison = self.insights_generator.compare_banks(df)
CompareBanks ==
  /\ pc = "insights"
  /\ DOMAIN all_insights = UniqueBanks(all_df)
  /\ comparison' = compare_banks(all_df, columns)
  /\ pc' = "done"
  /\ UNCHANGED <<all_df, columns, bank_reviews, all_insights, set_order>>
  /\ UNCHANGED <<bank_df, drivers, pain_points, recommendations, previous, prepVars, laterVars>>

NextBanks ==
  \/ \E bank \in Banks, r \in BankRows, n \in BankCopyCounts : LoadReviews(bank, r, n)
  \/ \E bank \in Banks : AnalyzeBank(bank)
  \/ CompareBanks

\* InsightsPipeline.run on the table of all banks
SpecBanks == InitBanks /\ [][NextBanks]_vars

\* ------------------------------------------------------ DataPreprocessor
\* Number of rows of the table given to preprocess.
MaxRows == 3
\* max_length of the preprocessor (1000 by default), small enough for the
\* texts of the model to exceed it.
max_length == 12
\* "min_length: int = 3"
min_length == 3

\* A cell that may be missing: <<v>> holds the value v, <<>> is None.
Missing == <<>>

\* Python's str.isspace for one character.
IsSpace(c) == c \in {" ", "\t", "\n"}

\* " ".join(text.split()): the words of text from position i on, joined by
\* single spaces behind acc; pending tells that whitespace followed the
\* last word.
RECURSIVE JoinSplit(_, _, _, _)
JoinSplit(text, i, acc, pending) ==
  IF i > Len(text) THEN acc
  ELSE LET c == SubSeq(text, i, i)
       IN IF IsSpace(c)
          THEN JoinSplit(text, i + 1, acc, acc # "")
          ELSE JoinSplit(text, i + 1,
                         acc \o (IF pending THEN " " ELSE "") \o c, FALSE)

\* str.strip()
RECURSIVE Strip(_)
Strip(text) ==
  IF Len(text) = 0 THEN text
  ELSE IF IsSpace(SubSeq(text, 1, 1)) THEN Strip(SubSeq(text, 2, Len(text)))
  ELSE IF IsSpace(SubSeq(text, Len(text), Len(text)))
       THEN Strip(SubSeq(text, 1, Len(text) - 1))
  ELSE text

\* clean_text returning the truncated text as it is, without strip().
clean_text_unstripped(cell) ==
  IF cell = Missing THEN ""
  ELSE LET text == JoinSplit(cell[1], 1, "", FALSE)
       IN IF Len(text) > max_length THEN SubSeq(text, 1, max_length) ELSE text

\* DataPreprocessor.clean_text, of a cell: "" when the cell holds no string.
clean_text(cell) ==
  IF cell = Missing THEN ""
  ELSE LET text == JoinSplit(cell[1], 1, "", FALSE)
       IN Strip(IF Len(text) > max_length THEN SubSeq(text, 1, max_length)
                ELSE text)

IsDigits(text) ==
  \A i \in 1..Len(text) :
    SubSeq(text, i, i) \in {"0", "1", "2", "3", "4", "5", "6", "7", "8", "9"}

Months == {"01", "02", "03", "04", "05", "06", "07", "08", "09", "10", "11", "12"}

Days ==
  Months \cup {"13", "14", "15", "16", "17", "18", "19", "20", "21", "22",
               "23", "24", "25", "26", "27", "28", "29", "30", "31"}

\* datetime.strptime(date_str, "%Y<sep>%m<sep>%d") succeeds (zero-padded
\* fields; the length of the month is not looked at).
IsYearFirst(text, sep) ==
  /\ Len(text) = 10
  /\ SubSeq(text, 5, 5) = sep
  /\ SubSeq(text, 8, 8) = sep
  /\ IsDigits(SubSeq(text, 1, 4))
  /\ SubSeq(text, 6, 7) \in Months
  /\ SubSeq(text, 9, 10) \in Days

\* datetime.strptime(date_str, "%d<sep>%m<sep>%Y") succeeds.
IsDayFirst(text, sep) ==
  /\ Len(text) = 10
  /\ SubSeq(text, 3, 3) = sep
  /\ SubSeq(text, 6, 6) = sep
  /\ IsDigits(SubSeq(text, 7, 10))
  /\ SubSeq(text, 4, 5) \in Months
  /\ SubSeq(text, 1, 2) \in Days

\* DataPreprocessor.normalize_date with date_format "%Y-%m-%d", of a cell.
normalize_date(cell) ==
  IF cell = Missing \/ cell = <<"">> THEN Missing
  ELSE LET text == cell[1]
       IN IF IsYearFirst(text, "-") \/ IsYearFirst(text, "/")
          THEN <<SubSeq(text, 1, 4) \o "-" \o SubSeq(text, 6, 7) \o "-"
                   \o SubSeq(text, 9, 10)>>
          ELSE IF IsDayFirst(text, "-") \/ IsDayFirst(text, "/")
          THEN <<SubSeq(text, 7, 10) \o "-" \o SubSeq(text, 4, 5) \o "-"
                   \o SubSeq(text, 1, 2)>>
          ELSE IF Contains(text, "T") /\ Len(text) >= 10
                  /\ IsYearFirst(SubSeq(text, 1, 10), "-")
          THEN <<SubSeq(text, 1, 10)>>
          ELSE Missing

\* A raw review row.
RawRow(review, rating, date, bank, user_name) ==
  [review |-> review, rating |-> rating, date |-> date, bank |-> bank,
   user_name |-> user_name]

\* The rows a raw table is made of.
RawRows ==
  {RawRow(<<"Great app!">>, 5, <<"2025-01-01">>, <<"CBE">>, <<"user1">>),
   RawRow(<<"Great  app!">>, 5, <<"2025/01/01">>, <<"CBE">>, <<"user1">>),
   RawRow(<<" Great app!\n">>, 4, <<"02-01-2025">>, <<"CBE">>, <<"user2">>),
   RawRow(<<"Bad app">>, 1, <<"2025-01-02T10:00:00">>, <<"BOA">>, <<"user2">>),
   RawRow(<<"   ">>, 3, <<"2025-01-03">>, <<"DASHEN">>, <<"user3">>),
   RawRow(<<"AAAAAAAAAAAAAAAA">>, 4, <<"yesterday">>, <<"CBE">>, <<"user4">>),
   RawRow(<<"Bad \t app">>, None, Missing, <<"BOA">>, <<"user2">>),
   RawRow(Missing, 2, <<"2025-01-04">>, Missing, <<"user3">>),
   RawRow(<<"Not bad">>, 6, <<"2025-13-04">>, Missing, <<"user4">>)}

\* The columns that tell whether two rows are duplicates.
DuplicateKey(row) == <<row.review, row.bank, row.user_name>>

\* df.drop_duplicates(subset=['review', 'bank', 'user_name'], keep='first')
DropDuplicates(table) ==
  LET kept == {i \in 1..Len(table) :
                 \A j \in 1..(i - 1) :
                   DuplicateKey(table[j]) # DuplicateKey(table[i])}
      order == [k \in 1..Cardinality(kept) |->
                  CHOOSE i \in kept : Cardinality({j \in kept : j < i}) = k - 1]
  IN [k \in 1..Cardinality(kept) |-> table[order[k]]]

\* DataPreprocessor.preprocess
preprocess(table, dedup) ==
  LET deduped == IF dedup THEN DropDuplicates(table) ELSE table
      cleaned == [i \in 1..Len(deduped) |->
                    [deduped[i] EXCEPT !.review = clean_text(@)]]
      sized == SelectSeq(cleaned,
                 LAMBDA row : /\ Len(row.review) >= min_length
                              /\ Len(row.review) <= max_length)
      dated == [i \in 1..Len(sized) |->
                  [sized[i] EXCEPT !.date = normalize_date(@)]]
      complete == SelectSeq(dated,
                    LAMBDA row : row.rating # None /\ row.bank # Missing)
  IN SelectSeq(complete, LAMBDA row : row.rating >= 1 /\ row.rating <= 5)

\* DataPreprocessor(remove_duplicates=...): no table yet.
InitPreprocess ==
  /\ bank_df = <<>>
  /\ pc = "raw"
  /\ drivers = <<>>
  /\ pain_points = <<>>
  /\ recommendations = <<>>
  /\ previous = <<>>
  /\ NoBanks
  /\ raw_df = <<>>
  /\ processed = <<>>
  /\ remove_duplicates \in BOOLEAN
  /\ NoLater

\* One more row in the table that will be given to preprocess.
AddRawRow(row) ==
  /\ pc = "raw"
  /\ Len(raw_df) < MaxRows
  /\ raw_df' = Append(raw_df, row)
  /\ UNCHANGED <<pc, processed, remove_duplicates>>
  /\ UNCHANGED <<bank_df, drivers, pain_points, recommendations, previous, bankVars, laterVars>>

\* processed = self.preprocessor.preprocess(df)
Preprocess ==
  /\ pc = "raw"
  /\ processed' = preprocess(raw_df, remove_duplicates)
  /\ pc' = "preprocessed"
  /\ UNCHANGED <<raw_df, remove_duplicates>>
  /\ UNCHANGED <<bank_df, drivers, pain_points, recommendations, previous, bankVars, laterVars>>

NextPreprocess ==
  \/ \E row \in RawRows : AddRawRow(row)
  \/ Preprocess

\* A table is built and preprocessed.
SpecPreprocess == InitPreprocess /\ [][NextPreprocess]_vars

\* ------------------------------------------------------------ clean_text
\* The argument of clean_text grows while it is shorter than this.
MaxTextLen == 14

\* The pieces the argument is made of: whitespace of several kinds and words.
Pieces == {" ", "\t\n ", "ab", "cdefg"}

\* The preprocessor exists; the argument is a string, empty so far, or not a
\* string at all.
InitClean ==
  /\ pc = "text"
  /\ NoInsights
  /\ NoBanks
  /\ NoPreprocessing
  /\ raw_text \in {<<"">>, Missing}
  /\ cleaned_text = ""
  /\ NoScraping
  /\ NoDatabase
  /\ NoPipeline

\* The argument grows by one piece.
AppendPiece(piece) ==
  /\ pc = "text"
  /\ raw_text # Missing
  /\ Len(raw_text[1]) < MaxTextLen
  /\ raw_text' = <<raw_text[1] \o piece>>
  /\ UNCHANGED <<pc, cleaned_text, insightVars, bankVars, prepVars, scraperVars, dbVars, pipeVars>>

\* cleaned = self.preprocessor.clean_text(text)
CleanText ==
  /\ pc = "text"
  /\ cleaned_text' = clean_text(raw_text)
  /\ pc' = "cleaned"
  /\ UNCHANGED <<raw_text, insightVars, bankVars, prepVars, scraperVars, dbVars, pipeVars>>

NextClean ==
  \/ \E piece \in Pieces : AppendPiece(piece)
  \/ CleanText

\* clean_text is called on a text.
SpecClean == InitClean /\ [][NextClean]_vars

\* ------------------------------------------------------ PlayStoreScraper
\* The largest max_reviews of a scraper of the model.
MaxReviews == 2
\* The largest retry_attempts of a scraper of the model.
MaxRetry == 2
\* self.batch_size, the largest number of reviews one request returns.
batch_size == 2

\* self.language_options, by default Amharic / Ethiopia and English / US.
language_options ==
  <<[lang |-> "am", country |-> "ET"], [lang |-> "en", country |-> "US"]>>

\* The reviews the store can return: the first two differ in the user only.
RemoteReviews ==
  {[content |-> "Good", score |-> 5, at |-> <<2025, 1, 1>>, userName |-> "u1"],
   [content |-> "Good", score |-> 4, at |-> <<2025, 1, 1>>, userName |-> "u2"],
   [content |-> "Bad", score |-> 1, at |-> <<>>, userName |-> "u3"]}

\* What one call of reviews() can return: up to batch_size reviews ...
Results == UNION {[1..n -> RemoteReviews] : n \in 0..batch_size}

\* ... and a continuation token or none.
Tokens == {Missing, <<"token">>}

\* Two digits, zero-padded.
Pad2(n) == IF n < 10 THEN "0" \o ToString(n) ELSE ToString(n)

\* review.get('at', '').strftime('%Y-%m-%d') if review.get('at') else ''
FormatAt(at) ==
  IF at = <<>> THEN ""
  ELSE ToString(at[1]) \o "-" \o Pad2(at[2]) \o "-" \o Pad2(at[3])

\* The row appended to all_reviews for a fetched review.
CleanedFormat(review) ==
  [review |-> review.content, rating |-> review.score, date |-> FormatAt(review.at),
   user_name |-> review.userName, bank |-> "CBE", app_name |-> "CBE Mobile",
   source |-> "Google Play"]

\* key = (review['review'], review['bank'], review['date'])
ReviewKey(row) == <<row.review, row.bank, row.date>>

\* The rows whose key no earlier row has.
UniqueReviews(rows) ==
  SelectSeq([i \in 1..Len(rows) |->
               [row |-> rows[i],
                first |-> \A j \in 1..(i - 1) : ReviewKey(rows[j]) # ReviewKey(rows[i])]],
            LAMBDA e : e.first)

\* PlayStoreScraper(max_reviews, retry_attempts), and scrape_reviews up to the
\* first language loop.
InitScraper ==
  /\ pc = "fetch"
  /\ NoInsights
  /\ NoBanks
  /\ NoPreprocessing
  /\ NoCleaning
  /\ NoDatabase
  /\ NoPipeline
  /\ max_reviews \in 0..MaxReviews
  /\ retry_attempts \in 0..MaxRetry
  /\ lc = 1
  /\ fetched = <<>>
  /\ token = Missing
  /\ attempts = 0
  /\ all_reviews = <<>>
  /\ scraped = <<>>
  /\ failures = 0

\* What scrape_reviews leaves alone.
scraperFixed ==
  <<max_reviews, retry_attempts, insightVars, bankVars, prepVars, cleanVars,
    dbVars, pipeVars>>

\* One pass of the while loop in which reviews() raises: the exception handler
\* without the test of attempts, so that the loop goes on for ever.
RequestRaisesUnbounded ==
  /\ pc = "fetch"
  /\ Len(fetched) < max_reviews
  /\ attempts' = 0
  /\ failures' = failures + 1
  /\ UNCHANGED <<pc, lc, fetched, token, all_reviews, scraped>>
  /\ UNCHANGED scraperFixed

\* One pass of the while loop in which reviews() raises.
RequestRaises ==
  /\ pc = "fetch"
  /\ Len(fetched) < max_reviews
  /\ attempts' = attempts + 1
  /\ failures' = failures + 1
  /\ pc' = IF attempts + 1 >= retry_attempts THEN "convert" ELSE "fetch"
  /\ UNCHANGED <<lc, fetched, token, all_reviews, scraped>>
  /\ UNCHANGED scraperFixed

\* One pass of the while loop in which reviews() returns (result, next), an
\* empty result being retried without counting it.
RequestReturnsUncounted(result, next) ==
  /\ pc = "fetch"
  /\ Len(fetched) < max_reviews
  /\ token' = next
  /\ IF Len(result) = 0
     THEN /\ failures' = failures + 1
          /\ UNCHANGED <<attempts, pc, fetched>>
     ELSE /\ attempts' = 0
          /\ failures' = 0
          /\ fetched' = Take(fetched \o result, max_reviews)
          /\ pc' = IF Len(fetched \o result) >= max_reviews \/ next = Missing
                   THEN "convert" ELSE "fetch"
  /\ UNCHANGED <<lc, all_reviews, scraped>>
  /\ UNCHANGED scraperFixed

\* One pass of the while loop in which reviews() returns (result, next).
RequestReturns(result, next) ==
  /\ pc = "fetch"
  /\ Len(fetched) < max_reviews
  /\ token' = next
  /\ IF Len(result) = 0
     THEN /\ attempts' = attempts + 1
          /\ failures' = failures + 1
          /\ pc' = IF attempts + 1 >= retry_attempts THEN "convert" ELSE "fetch"
          /\ UNCHANGED fetched
     ELSE /\ attempts' = 0
          /\ failures' = 0
          /\ fetched' = Take(fetched \o result, max_reviews)
          /\ pc' = IF Len(fetched \o result) >= max_reviews \/ next = Missing
                   THEN "convert" ELSE "fetch"
  /\ UNCHANGED <<lc, all_reviews, scraped>>
  /\ UNCHANGED scraperFixed

\* The while condition is false before the first request.
NoRequest ==
  /\ pc = "fetch"
  /\ Len(fetched) >= max_reviews
  /\ pc' = "convert"
  /\ UNCHANGED <<lc, fetched, token, attempts, all_reviews, scraped, failures>>
  /\ UNCHANGED scraperFixed

\* Behind the while loop: the fetched reviews are appended in cleaned format
\* and the next language, if any, starts.
ConvertFetched ==
  /\ pc = "convert"
  /\ all_reviews' = all_reviews \o [i \in 1..Len(fetched) |-> CleanedFormat(fetched[i])]
  /\ IF lc < Len(language_options)
     THEN /\ lc' = lc + 1
          /\ fetched' = <<>>
          /\ token' = Missing
          /\ attempts' = 0
          /\ failures' = 0
          /\ pc' = "fetch"
     ELSE /\ pc' = "dedup"
          /\ UNCHANGED <<lc, fetched, token, attempts, failures>>
  /\ UNCHANGED scraped
  /\ UNCHANGED scraperFixed

\* The duplicates are removed and the table is returned.
ReturnUnique ==
  /\ pc = "dedup"
  /\ scraped' = [i \in 1..Len(UniqueReviews(all_reviews)) |->
                   UniqueReviews(all_reviews)[i].row]
  /\ pc' = "returned"
  /\ UNCHANGED <<lc, fetched, token, attempts, all_reviews, failures>>
  /\ UNCHANGED scraperFixed

NextScraper ==
  \/ RequestRaises
  \/ \E result \in Results, next \in Tokens : RequestReturns(result, next)
  \/ NoRequest
  \/ ConvertFetched
  \/ ReturnUnique

\* scrape_reviews for one app
SpecScraper == InitScraper /\ [][NextScraper]_vars

\* scrape_reviews for one app, which goes on as long as it can: every call of
\* reviews() returns or raises.
SpecScraperFair == SpecScraper /\ WF_vars(NextScraper)

\* ------------------------------------------------------------ claims
\* Indices of the rows of the bank with rating >= 4 or label 'positive'.
PositiveRows ==
  {i \in 1..Len(bank_df) :
     \/ bank_df[i].rating \in 4..5
     \/ bank_df[i].sentiment_label = "positive"}

\* Indices of the rows of the bank with rating <= 2 or label 'negative'.
NegativeRows ==
  {i \in 1..Len(bank_df) :
     \/ bank_df[i].rating \in 1..2
     \/ bank_df[i].sentiment_label = "negative"}

\* The number of keywords of each category that each review text contains
\* (lower-cased), for the texts of the rows.
KeywordsContained ==
  [text \in {r.review_text : r \in Rows} |->
     [t \in Range(DriverTypes) \cup Range(PainTypes) |->
        LET keywords == IF t \in Range(DriverTypes) THEN drivers_keywords[t]
                        ELSE pain_point_keywords[t]
        IN Cardinality({k \in 1..Len(keywords) : Contains(Lower(text), keywords[k])})]]

\* Row i mentions category t: its text contains a keyword of t.
Mentions(i, t) == KeywordsContained[bank_df[i].review_text][t] > 0

\* The rows among `rows` that mention category t.
MentioningRows(rows, t) == {i \in rows : Mentions(i, t)}

\* The sum of f over the set S.
RECURSIVE Sum(_, _)
Sum(f, S) ==
  IF S = {} THEN 0
  ELSE LET x == CHOOSE y \in S : TRUE IN f[x] + Sum(f, S \ {x})

\* A score <<num, den>> lies in [0, 1].
InUnitInterval(q) == q[2] > 0 /\ 0 <= q[1] /\ q[1] <= q[2]

C2_OneMentionPerReview ==
  /\ \A i \in 1..Len(drivers) :
        drivers[i].mentions =
          Cardinality(MentioningRows(PositiveRows, drivers[i].type))
  /\ \A i \in 1..Len(pain_points) :
        pain_points[i].mentions =
          Cardinality(MentioningRows(NegativeRows, pain_points[i].type))

\* C3 as stated: the priority of the recommendation for each of the top 3 pain
\* points is High if (severity > 0.3 and mentions > 50) or severity > 0.25 or
\* mentions > 30, and Medium otherwise.
PriorityByScore(p) ==
  IF \/ (p.severity[1] * 10 > 3 * p.severity[2] /\ p.mentions > 50)
     \/ p.severity[1] * 4 > p.severity[2]
     \/ p.mentions > 30
  THEN "High" ELSE "Medium"

C3_PriorityFromSeverityAndMentions ==
  pc = "done" =>
    \A i \in 1..Min(Len(pain_points), 3) :
       recommendations[i].priority = PriorityByScore(pain_points[i])

\* C3 amended: the priority of the recommendation for each of the top 3 pain
\* points is the fixed priority of its category: High for crashes, slow and
\* transaction, Medium for login, network and ui, whatever the severity and
\* the mention count.
C3_PriorityFromCategory ==
  pc = "done" =>
    \A i \in 1..Min(Len(pain_points), 3) :
       recommendations[i].priority =
         IF pain_points[i].type \in {"crashes", "slow", "transaction"}
         THEN "High" ELSE "Medium"

C3_Witness ==
  /\ pc = "done"
  /\ \E i, j \in 1..Min(Len(pain_points), 3) :
        /\ recommendations[i].priority = "High"
        /\ PriorityByScore(pain_points[i]) = "Medium"
        /\ recommendations[j].priority = "Medium"
        /\ PriorityByScore(pain_points[j]) = "High"

\* The recommendations that are not opportunities.
EvidenceBased ==
  {i \in 1..Len(recommendations) : "opportunity" \notin DOMAIN recommendations[i]}

IsGeneric(rec) ==
  /\ "pain_point_tied_to" \in DOMAIN rec
  /\ rec.pain_point_tied_to = "general"
  /\ rec.priority = "Medium"

\* C4: with fewer than 2 pain points the recommendations hold exactly one
\* generic Medium recommendation tied to "general", so that with exactly 1
\* pain point there are 2 evidence-based recommendations.
C4_GenericRecommendationAppended ==
  (pc = "done" /\ Len(pain_points) < 2) =>
    /\ Cardinality({i \in EvidenceBased : IsGeneric(recommendations[i])}) = 1
    /\ Len(pain_points) = 1 => Cardinality(EvidenceBased) = 2

\* C5: every bank gets at least 2 recommendations.
C5_AtLeastTwoRecommendations ==
  pc = "done" => Len(recommendations) >= 2

\* A type was first hit before another: in an earlier row, or in the same row
\* and earlier in the taxonomy.
Index(seq, x) == CHOOSE i \in 1..Len(seq) : seq[i] = x

SetMin(S) == CHOOSE x \in S : \A y \in S : x <= y

HitBefore(rows, types, t1, t2) ==
  LET r1 == SetMin(MentioningRows(rows, t1))
      r2 == SetMin(MentioningRows(rows, t2))
  IN r1 < r2 \/ (r1 = r2 /\ Index(types, t1) < Index(types, t2))

C7_RepeatedRunIdentical ==
  (pc = "done" /\ Len(previous) > 0) => previous[1] = Insights

\* The number of keyword hits of category t in the given rows, as the scan
\* counts them: one for every keyword of the category a row's text contains.
HitCount(rows, t) ==
  Sum([i \in rows |-> KeywordsContained[bank_df[i].review_text][t]], rows)

QualifyingDrivers ==
  {t \in Range(DriverTypes) : HitCount(PositiveRows, t) >= MinMentions}

QualifyingPainPoints ==
  {t \in Range(PainTypes) : HitCount(NegativeRows, t) >= MinMentions}

TypesOf(list) == {list[i].type : i \in 1..Len(list)}

\* C8 as stated: the driver / pain-point list holds exactly the categories
\* whose mention count reaches the minimum threshold.
C8_ExactlyTheQualifying ==
  /\ pc # "load" => TypesOf(drivers) = QualifyingDrivers
  /\ pc \in {"recommendations", "done"} => TypesOf(pain_points) = QualifyingPainPoints

\* C8 amended: the list holds only categories whose mention count reaches the
\* threshold, each once; it holds all of them when at most 5 qualify, and 5 of
\* them when all 6 qualify.
C8_QualifyingCutToFive ==
  /\ pc # "load" =>
       /\ TypesOf(drivers) \subseteq QualifyingDrivers
       /\ Cardinality(TypesOf(drivers)) = Len(drivers)
       /\ Len(drivers) = Min(Cardinality(QualifyingDrivers), 5)
  /\ pc \in {"recommendations", "done"} =>
       /\ TypesOf(pain_points) \subseteq QualifyingPainPoints
       /\ Cardinality(TypesOf(pain_points)) = Len(pain_points)
       /\ Len(pain_points) = Min(Cardinality(QualifyingPainPoints), 5)

\* All 6 driver categories qualify and one is cut, next to a table where a
\* category was hit below the threshold.
C8_Witness ==
  /\ pc = "done"
  /\ Cardinality(QualifyingDrivers) = 6
  /\ Len(drivers) = 5
  /\ \E t \in Range(PainTypes) :
        /\ HitCount(NegativeRows, t) \in 1..4
        /\ t \notin TypesOf(pain_points)

\* C9: the driver scan covers exactly the rows with rating >= 4 or label
\* 'positive' and the pain-point scan exactly the rows with rating <= 2 or
\* label 'negative': each entry's evidence_count is the size of that subset
\* and its mentions are the keyword hits of that subset's rows.
C9_SubsetMembership ==
  /\ \A i \in 1..Len(drivers) :
        /\ drivers[i].evidence_count = Cardinality(PositiveRows)
        /\ drivers[i].mentions =
             HitCount(PositiveRows, drivers[i].type)
  /\ \A i \in 1..Len(pain_points) :
        /\ pain_points[i].evidence_count = Cardinality(NegativeRows)
        /\ pain_points[i].mentions =
             HitCount(NegativeRows, pain_points[i].type)

\* A row in both subsets is counted for a driver and for a pain point, next
\* to a row in neither subset.
C9_Witness ==
  /\ pc = "done"
  /\ \E r \in PositiveRows \cap NegativeRows :
        /\ \E i \in 1..Len(drivers) : Mentions(r, drivers[i].type)
        /\ \E i \in 1..Len(pain_points) :
              Mentions(r, pain_points[i].type)
  /\ \E r \in 1..Len(bank_df) : r \notin PositiveRows \cup NegativeRows

\* (rating/5)*0.5 + confidence*0.5 of row i, in hundredths
DriverWeightOfRow == [i \in 1..Len(bank_df) |->
                        bank_df[i].rating * 10 + bank_df[i].sentiment_score * 5]

\* (1 - rating/5)*0.5 + (1 - confidence)*0.5 of row i, in hundredths
PainWeightOfRow == [i \in 1..Len(bank_df) |->
                      (5 - bank_df[i].rating) * 10 + (10 - bank_df[i].sentiment_score) * 5]

Complete(rows) ==
  \A i \in rows : bank_df[i].rating # None /\ bank_df[i].sentiment_score # None

\* C10: the strength of a driver is the arithmetic mean of the weights of the
\* reviews that mention it, and the severity of a pain point likewise (for
\* reviews that have a rating and a confidence).
C10_MeanOverMentioningReviews ==
  /\ \A i \in 1..Len(drivers) :
        LET rows == MentioningRows(PositiveRows, drivers[i].type)
        IN Complete(rows) =>
             RatEq(drivers[i].strength,
                   <<Sum(DriverWeightOfRow, rows), 100 * Cardinality(rows)>>)
  /\ \A i \in 1..Len(pain_points) :
        LET rows == MentioningRows(NegativeRows, pain_points[i].type)
        IN Complete(rows) =>
             RatEq(pain_points[i].severity,
                   <<Sum(PainWeightOfRow, rows), 100 * Cardinality(rows)>>)

\* The keyword hits of category t in row i.
HitsInRow(i, t) == KeywordsContained[bank_df[i].review_text][t]

\* The weight of row i with the neutral rating 3 for an absent rating and 0.5
\* for an absent sentiment score, in hundredths: the driver weight ...
NeutralDriverWeight(i) ==
  (IF bank_df[i].rating = None THEN 3 ELSE bank_df[i].rating) * 10
    + (IF bank_df[i].sentiment_score = None THEN 5 ELSE bank_df[i].sentiment_score) * 5

\* ... and the pain-point weight.
NeutralPainWeight(i) ==
  (5 - (IF bank_df[i].rating = None THEN 3 ELSE bank_df[i].rating)) * 10
    + (10 - (IF bank_df[i].sentiment_score = None THEN 5
             ELSE bank_df[i].sentiment_score)) * 5

\* C11: the score of every driver and of every pain point is the mean, over
\* the hits the scan counted, of the weights computed with rating 3 where the
\* rating is absent and with sentiment score 0.5 where the score is absent.
C11_NeutralDefaults ==
  /\ \A i \in 1..Len(drivers) :
        RatEq(drivers[i].strength,
              <<Sum([r \in PositiveRows |->
                       HitsInRow(r, drivers[i].type) * NeutralDriverWeight(r)],
                    PositiveRows),
                100 * drivers[i].mentions>>)
  /\ \A i \in 1..Len(pain_points) :
        RatEq(pain_points[i].severity,
              <<Sum([r \in NegativeRows |->
                       HitsInRow(r, pain_points[i].type) * NeutralPainWeight(r)],
                    NegativeRows),
                100 * pain_points[i].mentions>>)

\* The k-th smallest element of the set S of numbers.
RECURSIVE NthMin(_, _)
NthMin(S, k) == IF k = 1 THEN SetMin(S) ELSE NthMin(S \ {SetMin(S)}, k - 1)

\* The examples are those of the first 3 distinct rows of `rows` that mention
\* category t, in row order, with texts of at most 100 characters.
FirstDistinctMentions(examples, rows, t) ==
  LET M == MentioningRows(rows, t)
  IN /\ Len(examples) = Min(Cardinality(M), 3)
     /\ \A k \in 1..Len(examples) :
           /\ Len(examples[k].text) <= 100
           /\ examples[k].text = Truncate(bank_df[NthMin(M, k)].review_text)
           /\ examples[k].sentiment = bank_df[NthMin(M, k)].sentiment_label

\* C12: each insight carries at most 3 examples, the first 3 distinct reviews
\* mentioning its category in scan order, texts cut to 100 characters.
C12_ExamplesFirstThreeDistinct ==
  /\ \A i \in 1..Len(drivers) :
        FirstDistinctMentions(drivers[i].examples, PositiveRows, drivers[i].type)
  /\ \A i \in 1..Len(pain_points) :
        FirstDistinctMentions(pain_points[i].examples, NegativeRows,
                              pain_points[i].type)

IsOpportunity(rec) == "opportunity" \in DOMAIN rec

\* C13: the recommendations are one per pain point for the top 3 pain points,
\* in rank order, followed by at most 2 opportunity recommendations, each
\* flagged opportunity = true and each for a driver category that is not in
\* the driver list.
C13_EvidenceFirstThenOpportunities ==
  pc = "done" =>
    LET n == Min(Len(pain_points), 3)
        k == Len(recommendations) - n
    IN /\ k \in 0..2
       /\ \A i \in 1..n :
             /\ ~IsOpportunity(recommendations[i])
             /\ recommendations[i].title =
                  recommendations_map[pain_points[i].type].title
             /\ recommendations[i].severity = pain_points[i].severity
       /\ \A i \in (n + 1)..(n + k) :
             /\ IsOpportunity(recommendations[i])
             /\ recommendations[i].opportunity = TRUE
             /\ \E t \in Range(DriverTypes) \ TypesOf(drivers) :
                   recommendations[i].title = opportunities_map[t].title
       /\ \A i, j \in (n + 1)..(n + k) :
             i # j => recommendations[i] # recommendations[j]

\* Three or more pain points, a driver, and two opportunities behind them.
C13_Witness ==
  /\ pc = "done"
  /\ Len(pain_points) > 3
  /\ Len(drivers) > 0
  /\ Len(recommendations) = 5
  /\ IsOpportunity(recommendations[5])

\* C14: every recommendation made from a pain point carries the evidence
\* "<mentions> mentions in negative reviews" and a tied-to field holding the
\* pain point's category, and every recommendation has a tied-to field.
C14_EvidenceAndTiedTo ==
  pc = "done" =>
    /\ \A i \in 1..Min(Len(pain_points), Len(recommendations)) :
          i <= 3 =>
            /\ recommendations[i].evidence =
                 ToString(pain_points[i].mentions) \o " mentions in negative reviews"
            /\ "pain_point_tied_to" \in DOMAIN recommendations[i]
            /\ recommendations[i].pain_point_tied_to = pain_points[i].type
    /\ \A i \in 1..Len(recommendations) :
          "pain_point_tied_to" \in DOMAIN recommendations[i]

RatingsPresent(bank) ==
  SelectSeq([i \in 1..Len(bank_reviews[bank]) |-> bank_reviews[bank][i].rating],
            LAMBDA x : x # None)

\* C16: the average rating of a bank, in compare_banks and in the bank's
\* stats, is the mean of the ratings that are present; a review without a
\* rating is left out of it, not counted as 0.
C16_AverageOverPresentRatings ==
  /\ \A bank \in DOMAIN comparison :
        Len(RatingsPresent(bank)) > 0 =>
          RatEq(comparison[bank].average_rating,
                <<SeqSum(RatingsPresent(bank)), Len(RatingsPresent(bank))>>)
  /\ \A bank \in DOMAIN all_insights :
        Len(RatingsPresent(bank)) > 0 =>
          RatEq(all_insights[bank].stats.average_rating,
                <<SeqSum(RatingsPresent(bank)), Len(RatingsPresent(bank))>>)

\* The number of the bank's reviews with the given label.
LabelCount(bank, label) ==
  Cardinality({i \in 1..Len(bank_reviews[bank]) :
                 bank_reviews[bank][i].sentiment_label = label})

\* C17: each sentiment percentage of compare_banks is 100 * count / total,
\* the three of them sum to at most 100, and the rating histogram has
\* exactly the keys 1..5, with counts summing to the number of rated reviews.
C17_PercentagesAndHistogram ==
  \A bank \in DOMAIN comparison :
    LET c == comparison[bank]
        total == Len(bank_reviews[bank])
        pos == c.positive_sentiment_pct
        neg == c.negative_sentiment_pct
        neu == c.neutral_sentiment_pct
    IN /\ RatEq(pos, <<100 * LabelCount(bank, "positive"), total>>)
       /\ RatEq(neg, <<100 * LabelCount(bank, "negative"), total>>)
       /\ RatEq(neu, <<100 * LabelCount(bank, "neutral"), total>>)
       /\ pos[1] + neg[1] + neu[1] <= 100 * total
       /\ DOMAIN c.rating_distribution = 1..5
       /\ SeqSum([k \in 1..5 |-> c.rating_distribution[k]])
            = Len(RatingsPresent(bank))

\* C19: what is computed for a bank is what its own reviews give, whatever
\* the other banks' reviews in the table are and in whatever order the banks
\* are analysed: drivers, pain points, recommendations, stats and comparison.
C19_OnlyOwnReviews ==
  /\ \A bank \in DOMAIN all_insights :
        LET own == bank_reviews[bank]
            drvs == identify_drivers(own)
            pains == identify_pain_points(own)
            pick == Take(ListOfSet(MissingDrivers(drvs), set_order), TopOpportunities)
        IN /\ all_insights[bank].drivers = drvs
           /\ all_insights[bank].pain_points = pains
           /\ all_insights[bank].recommendations =
                generate_recommendations(drvs, pains, pick)
           /\ all_insights[bank].stats = BankStats(own, columns)
  /\ \A bank \in DOMAIN comparison :
        comparison[bank] = BankComparison(bank_reviews[bank], columns)

\* Two banks share the table and come out with different insights.
C19_Witness ==
  /\ pc = "done"
  /\ DOMAIN all_insights = Banks
  /\ DOMAIN comparison = Banks
  /\ Len(all_insights["CBE"].drivers) > 0
  /\ Len(all_insights["BOA"].pain_points) > 0
  /\ all_insights["CBE"].recommendations # all_insights["BOA"].recommendations

\* C18: no exception leaves identify_drivers, identify_pain_points,
\* generate_recommendations or compare_banks, whatever the records lack: the
\* run never ends with a raised exception.
C18_NoExceptionPropagates == pc # "raised"

\* C20: preprocess returns no more rows than it was given, each of them the
\* cleaned form of a row given, and, with remove_duplicates on, no two of
\* them with the same (review, bank, user_name), also for reviews that
\* differed only in whitespace before cleaning.
C20_PreprocessRemovesDuplicates ==
  pc = "preprocessed" =>
    /\ Len(processed) <= Len(raw_df)
    /\ \A i \in 1..Len(processed) :
          \E j \in 1..Len(raw_df) :
            /\ processed[i].review = clean_text(raw_df[j].review)
            /\ processed[i].rating = raw_df[j].rating
            /\ processed[i].bank = raw_df[j].bank
            /\ processed[i].user_name = raw_df[j].user_name
    /\ remove_duplicates =>
          \A i, j \in 1..Len(processed) :
            i # j => DuplicateKey(processed[i]) # DuplicateKey(processed[j])

\* The text without its whitespace.
RECURSIVE Letters(_)
Letters(text) ==
  IF Len(text) = 0 THEN ""
  ELSE (IF IsSpace(SubSeq(text, 1, 1)) THEN "" ELSE SubSeq(text, 1, 1))
         \o Letters(SubSeq(text, 2, Len(text)))

\* No whitespace but single spaces between words.
SingleSpaced(text) ==
  /\ \A i \in 1..Len(text) : IsSpace(SubSeq(text, i, i)) => SubSeq(text, i, i) = " "
  /\ Len(text) > 0 => SubSeq(text, 1, 1) # " " /\ SubSeq(text, Len(text), Len(text)) # " "
  /\ \A i \in 1..(Len(text) - 1) : SubSeq(text, i, i + 1) # "  "

\* C21: the result of clean_text has at most max_length characters, no
\* whitespace but single spaces between its words, and the words of the
\* argument (all of them when nothing is cut); clean_text of the result is
\* the result; what is not a string gives "".
C21_CleanTextNormalises ==
  /\ clean_text(<<"  Hello   World  ">>) = "Hello World"
  /\ pc = "cleaned" =>
       /\ Len(cleaned_text) <= max_length
       /\ SingleSpaced(cleaned_text)
       /\ clean_text(<<cleaned_text>>) = cleaned_text
       /\ raw_text = Missing => cleaned_text = ""
       /\ raw_text # Missing =>
            LET all == Letters(raw_text[1])
                got == Letters(cleaned_text)
            IN /\ Len(got) <= Len(all)
               /\ got = SubSeq(all, 1, Len(got))
               /\ Len(cleaned_text) < max_length - 1 => got = all

\* A text was cut at max_length just behind a space, which strip() removed.
C21_Witness ==
  /\ pc = "cleaned"
  /\ raw_text # Missing
  /\ Len(JoinSplit(raw_text[1], 1, "", FALSE)) > max_length
  /\ Len(cleaned_text) = max_length - 1

\* C28: an opportunity recommendation is only made for a driver category
\* that stayed below the mention threshold in the positive reviews, also
\* when all 6 categories reach it and the driver list is cut to 5.
C28_OpportunityOnlyBelowThreshold ==
  pc = "done" =>
    \A i \in 1..Len(recommendations) :
      IsOpportunity(recommendations[i]) =>
        \A t \in Range(DriverTypes) :
          recommendations[i].title = opportunities_map[t].title =>
            t \notin QualifyingDrivers

\* C22: the table scrape_reviews returns for an app never holds more than
\* max_reviews reviews.
C22_AtMostMaxReviews == pc = "returned" => Len(scraped) <= max_reviews

\* One pass of the while loop of scrape_reviews.
IsRequest == pc = "fetch" /\ Len(fetched) < max_reviews

\* C23 as stated: in a language loop the failed requests in a row never
\* exceed retry_attempts, no request is made once they have reached it, and
\* the counter goes back to 0 only with a request that returned reviews.
C23_RetriesBounded ==
  /\ [](failures <= retry_attempts)
  /\ [](IsRequest /\ failures > 0 => failures < retry_attempts)
  /\ [][(IsRequest /\ attempts # 0 /\ attempts' = 0) => Len(fetched') > Len(fetched)]_vars

\* retry_attempts, or 1 when it is smaller: the first request of a language is
\* always made.
AllowedFailures == IF retry_attempts > 1 THEN retry_attempts ELSE 1

\* C23, amended: as above with the failed requests bounded by retry_attempts
\* or, when retry_attempts is 0, by 1; the counter of the code is the number
\* of failed requests in a row.
C23_RetriesBoundedFromOne ==
  /\ [](failures <= AllowedFailures)
  /\ [](IsRequest => failures < AllowedFailures)
  /\ [](pc \in {"fetch", "convert"} => attempts = failures)
  /\ [](pc = "convert" /\ Len(fetched) < max_reviews /\ token # Missing
          => failures = AllowedFailures)
  /\ [][(IsRequest /\ attempts # 0 /\ attempts' = 0) => Len(fetched') > Len(fetched)]_vars

\* The second language was given up after retry_attempts failed requests in a
\* row that followed a successful one.
C23_Witness ==
  /\ pc = "convert"
  /\ lc = 2
  /\ retry_attempts = 2
  /\ failures = 2
  /\ Len(fetched) = 1

\* C24: the fetch loop of every language ends, whatever reviews() does: the
\* table is returned in the end, every request makes the fetched list longer
\* or the failure counter higher, and the counter is reset only when the list
\* gets longer.
C24_FetchLoopTerminates ==
  /\ <>(pc = "returned")
  /\ [][IsRequest =>
          /\ Len(fetched') > Len(fetched) \/ attempts' = attempts + 1
          /\ attempts' < attempts => Len(fetched') > Len(fetched)]_vars

\* Both languages ended after failed requests and the table was returned.
C24_Witness ==
  /\ pc = "returned"
  /\ retry_attempts = 2
  /\ max_reviews = 2
  /\ attempts = 2
  /\ Len(all_reviews) = 2

\* ------------------------------------------------------------ the database
\* src/database/db_connection.py and src/database/db_loader.py, used by one
\* client at a time: a call of execute_query, execute_update, test_connection,
\* load_banks or load_reviews_from_csv runs to its end before the next one
\* starts.  conn.rollback(), conn.close() and the cursors' own context
\* managers are taken to complete; psycopg2.connect, the statements of a body
\* and conn.commit() may each raise.

\* The number of calls made on one DatabaseConnection.
MaxCalls == 2

\* The number of rows load_reviews_from_csv has prepared, at most.
MaxPrepared == 3

\* The batch_size argument of load_reviews_from_csv, at most.
MaxInsertSize == 2

\* The entries of config['banks'].
CBE == [name |-> "Commercial Bank of Ethiopia", app_name |-> "cbe", code |-> "CBE"]

BOA == [name |-> "Bank of Abyssinia", app_name |-> "boa", code |-> "BOA"]

\* The same bank under a second code.
CBE2 == [name |-> "Commercial Bank of Ethiopia", app_name |-> "cbe", code |-> "CBE2"]

\* The configurations: two banks, one bank listed twice, no bank.
Configs == {[banks |-> <<CBE, BOA>>], [banks |-> <<CBE, CBE2>>], [banks |-> <<>>]}

\* The banks table before the first call: empty, or holding one of the banks
\* already.
InitialBanks ==
  {<<>>, <<[bank_id |-> 1, bank_name |-> CBE.name, app_name |-> CBE.app_name]>>}

\* reviews_data: the tuples _prepare_processed_reviews has made of n rows.
PreparedData(n) ==
  [k \in 1..n |-> [bank_id |-> 1, review_text |-> "review " \o ToString(k)]]

\* The methods whose body is one statement.
OneStatement == {"execute_query", "execute_update", "test_connection"}

\* What the database operations leave alone.
dbFixed == <<insightVars, bankVars, prepVars, cleanVars, scraperVars, pipeVars>>

\* DatabaseConnection() and DatabaseLoader(db): no connection, an empty
\* cache, the tables as they are at the server.
InitDb ==
  /\ pc = "idle"
  /\ NoInsights
  /\ NoBanks
  /\ NoPreprocessing
  /\ NoCleaning
  /\ NoScraping
  /\ NoPipeline
  /\ connection = None
  /\ conn = None
  /\ open_conns = {}
  /\ conn_count = 0
  /\ op = "none"
  /\ exc = "none"
  /\ body_done = FALSE
  /\ commit_called = FALSE
  /\ rolled_back = FALSE
  /\ raised = "none"
  /\ banks_table \in InitialBanks
  /\ tx_banks = <<>>
  /\ reviews_table = <<>>
  /\ tx_reviews = <<>>
  /\ bank_seq = Len(banks_table) + 1
  /\ bank_cache = <<>>
  /\ bank_mapping = <<>>
  /\ config \in Configs
  /\ reviews_data = <<>>
  /\ insert_size = 1
  /\ idx = 0
  /\ total_inserted = 0
  /\ retval = Missing
  /\ mappings = <<>>
  /\ calls = 0

\* A method is entered with fresh locals: get_connection's conn = None, and
\* load_banks' bank_mapping = {}.
Enter(name, data, size, at) ==
  /\ op' = name
  /\ calls' = calls + 1
  /\ pc' = at
  /\ conn' = None
  /\ exc' = "none"
  /\ body_done' = FALSE
  /\ commit_called' = FALSE
  /\ rolled_back' = FALSE
  /\ raised' = "none"
  /\ bank_mapping' = <<>>
  /\ reviews_data' = data
  /\ insert_size' = size
  /\ idx' = 0
  /\ total_inserted' = 0
  /\ UNCHANGED <<connection, open_conns, conn_count, banks_table, tx_banks,
                 reviews_table, tx_reviews, bank_seq, bank_cache, config,
                 mappings, dbFixed>>

\* execute_query, execute_update, test_connection or load_banks is called and
\* reaches its with statement.
Call(name) ==
  /\ pc = "idle"
  /\ calls < MaxCalls
  /\ retval' = Missing
  /\ Enter(name, <<>>, 1, "connect")

\* load_reviews_from_csv is called with a file of n valid rows: it returns 0
\* at once when there is no row, and reaches its with statement otherwise.
CallLoadReviews(n, size) ==
  /\ pc = "idle"
  /\ calls < MaxCalls
  /\ IF n = 0
       THEN /\ retval' = <<0>>
            /\ Enter("load_reviews_from_csv", <<>>, size, "idle")
       ELSE /\ retval' = Missing
            /\ Enter("load_reviews_from_csv", PreparedData(n), size, "connect")

\* conn = self.connect(): psycopg2.connect succeeds, self.connection is the
\* new connection, and the transaction starts from the committed tables.
connect ==
  /\ pc = "connect"
  /\ connection' = conn_count + 1
  /\ conn' = conn_count + 1
  /\ conn_count' = conn_count + 1
  /\ open_conns' = open_conns \cup {conn_count + 1}
  /\ tx_banks' = banks_table
  /\ tx_reviews' = reviews_table
  /\ pc' = "body"
  /\ UNCHANGED <<op, exc, body_done, commit_called, rolled_back, raised,
                 banks_table, reviews_table, bank_seq, bank_cache,
                 bank_mapping, config, reviews_data, insert_size, idx,
                 total_inserted, retval, mappings, calls, dbFixed>>

\* conn = self.connect(): psycopg2.connect raises, connect re-raises, and
\* neither self.connection nor conn is assigned.
connect_raises ==
  /\ pc = "connect"
  /\ exc' = "connect"
  /\ pc' = "except"
  /\ UNCHANGED <<connection, conn, open_conns, conn_count, op, body_done,
                 commit_called, rolled_back, raised, banks_table, tx_banks,
                 reviews_table, tx_reviews, bank_seq, bank_cache,
                 bank_mapping, config, reviews_data, insert_size, idx,
                 total_inserted, retval, mappings, calls, dbFixed>>

\* The rows of the banks table, as the transaction sees it, with this name.
SelectBank(bank_name) ==
  SelectSeq(tx_banks, LAMBDA row : row.bank_name = bank_name)

\* One pass of the for loop of load_banks that inserts the bank whether or
\* not the table holds it.
load_bank_unchecked ==
  /\ pc = "body"
  /\ op = "load_banks"
  /\ idx < Len(config.banks)
  /\ LET bank == config.banks[idx + 1]
     IN /\ tx_banks' = Append(tx_banks, [bank_id |-> bank_seq,
                                         bank_name |-> bank.name,
                                         app_name |-> bank.app_name])
        /\ bank_seq' = bank_seq + 1
        /\ bank_mapping' = (bank.code :> bank_seq) @@ bank_mapping
        /\ bank_cache' = (bank.name :> bank_seq) @@ bank_cache
  /\ idx' = idx + 1
  /\ UNCHANGED <<pc, connection, conn, open_conns, conn_count, op, exc,
                 body_done, commit_called, rolled_back, raised, banks_table,
                 reviews_table, tx_reviews, config, reviews_data, insert_size,
                 total_inserted, retval, mappings, calls, dbFixed>>

\* One pass of the for loop of load_banks: SELECT the bank by name, INSERT it
\* when there is no such row, and record its id in bank_mapping and in
\* bank_cache.
load_bank ==
  /\ pc = "body"
  /\ op = "load_banks"
  /\ idx < Len(config.banks)
  /\ LET bank == config.banks[idx + 1]
         result == SelectBank(bank.name)
         bank_id == IF result # <<>> THEN result[1].bank_id ELSE bank_seq
     IN /\ IF result # <<>>
             THEN UNCHANGED <<tx_banks, bank_seq>>
             ELSE /\ tx_banks' = Append(tx_banks, [bank_id |-> bank_seq,
                                                   bank_name |-> bank.name,
                                                   app_name |-> bank.app_name])
                  /\ bank_seq' = bank_seq + 1
        /\ bank_mapping' = (bank.code :> bank_id) @@ bank_mapping
        /\ bank_cache' = (bank.name :> bank_id) @@ bank_cache
  /\ idx' = idx + 1
  /\ UNCHANGED <<pc, connection, conn, open_conns, conn_count, op, exc,
                 body_done, commit_called, rolled_back, raised, banks_table,
                 reviews_table, tx_reviews, config, reviews_data, insert_size,
                 total_inserted, retval, mappings, calls, dbFixed>>

\* The batch that starts after the first idx rows.
Batch == SubSeq(reviews_data, idx + 1,
                IF idx + insert_size < Len(reviews_data)
                  THEN idx + insert_size ELSE Len(reviews_data))

\* One pass of the for loop of load_reviews_from_csv on a connection in
\* autocommit mode: the batch is committed as it is inserted.
insert_batch_autocommit ==
  /\ pc = "body"
  /\ op = "load_reviews_from_csv"
  /\ idx < Len(reviews_data)
  /\ tx_reviews' = tx_reviews \o Batch
  /\ reviews_table' = reviews_table \o Batch
  /\ total_inserted' = total_inserted + Len(Batch)
  /\ idx' = idx + insert_size
  /\ UNCHANGED <<pc, connection, conn, open_conns, conn_count, op, exc,
                 body_done, commit_called, rolled_back, raised, banks_table,
                 tx_banks, bank_seq, bank_cache, bank_mapping,
                 config, reviews_data, insert_size, retval, mappings, calls,
                 dbFixed>>

\* One pass of the for loop of load_reviews_from_csv: execute_values inserts
\* the batch in the open transaction.
insert_batch ==
  /\ pc = "body"
  /\ op = "load_reviews_from_csv"
  /\ idx < Len(reviews_data)
  /\ tx_reviews' = tx_reviews \o Batch
  /\ total_inserted' = total_inserted + Len(Batch)
  /\ idx' = idx + insert_size
  /\ UNCHANGED <<pc, connection, conn, open_conns, conn_count, op, exc,
                 body_done, commit_called, rolled_back, raised, banks_table,
                 tx_banks, reviews_table, bank_seq, bank_cache, bank_mapping,
                 config, reviews_data, insert_size, retval, mappings, calls,
                 dbFixed>>

\* The body of the with statement has no statement left to run.
BodyComplete ==
  CASE op = "load_banks" -> idx = Len(config.banks)
    [] op = "load_reviews_from_csv" -> idx >= Len(reviews_data)
    [] OTHER -> TRUE

\* The body of the with statement ends without an exception, by falling off
\* its end or by a return statement: the generator goes on after its yield.
BodyFinishes ==
  /\ pc = "body"
  /\ BodyComplete
  /\ body_done' = TRUE
  /\ retval' = CASE op = "execute_query" -> <<tx_reviews>>
                 [] op = "execute_update" -> <<0>>
                 [] op = "test_connection" -> <<TRUE>>
                 [] OTHER -> retval
  /\ pc' = "commit"
  /\ UNCHANGED <<connection, conn, open_conns, conn_count, op, exc,
                 commit_called, rolled_back, raised, banks_table, tx_banks,
                 reviews_table, tx_reviews, bank_seq, bank_cache,
                 bank_mapping, config, reviews_data, insert_size, idx,
                 total_inserted, mappings, calls, dbFixed>>

\* A statement of the body raises: the exception is thrown into the
\* generator at its yield.
BodyRaises ==
  /\ pc = "body"
  /\ ~BodyComplete \/ op \in OneStatement
  /\ exc' = "body"
  /\ pc' = "except"
  /\ UNCHANGED <<connection, conn, open_conns, conn_count, op, body_done,
                 commit_called, rolled_back, raised, banks_table, tx_banks,
                 reviews_table, tx_reviews, bank_seq, bank_cache,
                 bank_mapping, config, reviews_data, insert_size, idx,
                 total_inserted, retval, mappings, calls, dbFixed>>

\* conn.commit() succeeds: what the transaction wrote is in the tables.
commit ==
  /\ pc = "commit"
  /\ commit_called' = TRUE
  /\ banks_table' = tx_banks
  /\ reviews_table' = tx_reviews
  /\ pc' = "finally"
  /\ UNCHANGED <<connection, conn, open_conns, conn_count, op, exc,
                 body_done, rolled_back, raised, tx_banks, tx_reviews,
                 bank_seq, bank_cache, bank_mapping, config, reviews_data,
                 insert_size, idx, total_inserted, retval, mappings, calls,
                 dbFixed>>

\* conn.commit() raises.
commit_raises ==
  /\ pc = "commit"
  /\ commit_called' = TRUE
  /\ exc' = "commit"
  /\ pc' = "except"
  /\ UNCHANGED <<connection, conn, open_conns, conn_count, op, body_done,
                 rolled_back, raised, banks_table, tx_banks, reviews_table,
                 tx_reviews, bank_seq, bank_cache, bank_mapping, config,
                 reviews_data, insert_size, idx, total_inserted, retval,
                 mappings, calls, dbFixed>>

\* except Exception: if conn: conn.rollback(); raise.  The transaction's
\* writes are gone; the numbers drawn from the sequence of bank_id are not
\* given back.
rollback ==
  /\ pc = "except"
  /\ IF conn # None
       THEN /\ rolled_back' = TRUE
            /\ tx_banks' = banks_table
            /\ tx_reviews' = reviews_table
       ELSE UNCHANGED <<rolled_back, tx_banks, tx_reviews>>
  /\ pc' = "finally"
  /\ UNCHANGED <<connection, conn, open_conns, conn_count, op, exc,
                 body_done, commit_called, raised, banks_table,
                 reviews_table, bank_seq, bank_cache, bank_mapping, config,
                 reviews_data, insert_size, idx, total_inserted, retval,
                 mappings, calls, dbFixed>>

\* What the method hands to its caller: test_connection turns an exception
\* into False, the other methods let it through and return nothing.
Returned ==
  CASE exc # "none" /\ op = "test_connection" -> <<FALSE>>
    [] exc # "none" -> Missing
    [] op = "load_banks" -> <<bank_mapping>>
    [] op = "load_reviews_from_csv" -> <<total_inserted>>
    [] OTHER -> retval

\* The finally block without its call of disconnect when an exception is
\* under way.
leave_open ==
  /\ pc = "finally"
  /\ IF conn # None /\ connection # None /\ exc = "none"
       THEN /\ open_conns' = open_conns \ {connection}
            /\ connection' = None
       ELSE UNCHANGED <<open_conns, connection>>
  /\ raised' = exc
  /\ retval' = Returned
  /\ mappings' = IF op = "load_banks" /\ exc = "none"
                   THEN Append(mappings, bank_mapping) ELSE mappings
  /\ pc' = "idle"
  /\ UNCHANGED <<conn, conn_count, op, exc, body_done, commit_called,
                 rolled_back, banks_table, tx_banks, reviews_table,
                 tx_reviews, bank_seq, bank_cache, bank_mapping, config,
                 reviews_data, insert_size, idx, total_inserted, calls,
                 dbFixed>>

\* finally: if conn: self.disconnect(), which closes self.connection and sets
\* it to None; then control leaves get_connection, with the exception if
\* there is one, and the method returns or raises.
leave ==
  /\ pc = "finally"
  /\ IF conn # None /\ connection # None
       THEN /\ open_conns' = open_conns \ {connection}
            /\ connection' = None
       ELSE UNCHANGED <<open_conns, connection>>
  /\ raised' = exc
  /\ retval' = Returned
  /\ mappings' = IF op = "load_banks" /\ exc = "none"
                   THEN Append(mappings, bank_mapping) ELSE mappings
  /\ pc' = "idle"
  /\ UNCHANGED <<conn, conn_count, op, exc, body_done, commit_called,
                 rolled_back, banks_table, tx_banks, reviews_table,
                 tx_reviews, bank_seq, bank_cache, bank_mapping, config,
                 reviews_data, insert_size, idx, total_inserted, calls,
                 dbFixed>>

NextDb ==
  \/ \E name \in OneStatement \cup {"load_banks"} : Call(name)
  \/ \E n \in 0..MaxPrepared, size \in 1..MaxInsertSize : CallLoadReviews(n, size)
  \/ connect
  \/ connect_raises
  \/ load_bank
  \/ insert_batch
  \/ BodyFinishes
  \/ BodyRaises
  \/ commit
  \/ commit_raises
  \/ rollback
  \/ leave

SpecDb == InitDb /\ [][NextDb]_vars

\* C25: get_connection calls commit exactly when its body has finished
\* without an exception; when the body or the commit raises it rolls back and
\* the same exception leaves the context; and whenever control has left the
\* context, after any sequence of execute_query, execute_update,
\* test_connection (and loader) calls, no connection is open and
\* self.connection is None.
C25_ConnectionClosedAfterUse ==
  /\ commit_called => body_done
  /\ pc \in {"finally", "idle"} /\ body_done => commit_called
  /\ pc \in {"finally", "idle"} /\ exc \in {"body", "commit"} => rolled_back
  /\ rolled_back => exc \in {"body", "commit"}
  /\ pc = "idle" => /\ raised = exc
                    /\ open_conns = {}
                    /\ connection = None

\* Two calls have been made, each opened a connection, the second one's
\* commit raised and was rolled back, and both connections are closed.
C25_Witness ==
  /\ pc = "idle"
  /\ calls = 2
  /\ conn_count = 2
  /\ op \in OneStatement
  /\ exc = "commit"
  /\ rolled_back
  /\ raised = "commit"
  /\ open_conns = {}

\* A step of load_reviews_from_csv that changes the committed reviews table
\* is the commit of the whole of reviews_data, and no step of a call in which
\* an exception has been raised changes it.
AllOrNothing ==
  /\ reviews_table' # reviews_table =>
       /\ pc = "commit"
       /\ pc' = "finally"
       /\ exc' = "none"
       /\ reviews_table' = reviews_table \o reviews_data
  /\ pc = "finally" => exc' = exc
  /\ exc # "none" \/ exc' # "none" => reviews_table' = reviews_table

\* C27: load_reviews_from_csv inserts its batches in one transaction: the
\* committed table changes only by the commit of all prepared rows at once, a
\* call in which a batch (or the commit) raises commits nothing and lets the
\* exception through, and a call that succeeds returns the number of prepared
\* rows, all of which are committed.
C27_BatchesInOneTransaction ==
  /\ [](pc = "idle" /\ op = "load_reviews_from_csv" =>
          /\ raised = exc
          /\ exc = "none" =>
               /\ retval = <<Len(reviews_data)>>
               /\ reviews_data # <<>> => commit_called
               /\ Len(reviews_table) >= Len(reviews_data)
               /\ SubSeq(reviews_table,
                         Len(reviews_table) - Len(reviews_data) + 1,
                         Len(reviews_table)) = reviews_data
          /\ exc # "none" => retval = Missing)
  /\ [][op' = "load_reviews_from_csv" => AllOrNothing]_vars

\* A first call committed two rows; a second call with three rows in batches
\* of two failed in its second batch, was rolled back and let the exception
\* through, and the table holds the two rows of the first call only.
C27_Witness ==
  /\ pc = "idle"
  /\ op = "load_reviews_from_csv"
  /\ calls = 2
  /\ Len(reviews_data) = 3
  /\ insert_size = 2
  /\ exc = "body"
  /\ idx = 2
  /\ total_inserted = 2
  /\ rolled_back
  /\ raised = "body"
  /\ reviews_table = PreparedData(2)

\* The rows of the committed banks table with this name.
StoredBank(bank_name) ==
  SelectSeq(banks_table, LAMBDA row : row.bank_name = bank_name)

\* C29: once load_banks has succeeded, any number of times with the same
\* configuration, every configured bank_name is in the banks table exactly
\* once, every successful call has returned the same mapping from code to
\* bank_id, and bank_cache maps every configured bank_name to the id the table
\* holds for it.
C29_LoadBanksIdempotent ==
  pc = "idle" /\ mappings # <<>> =>
    /\ \A k \in DOMAIN config.banks :
         /\ Len(StoredBank(config.banks[k].name)) = 1
         /\ config.banks[k].name \in DOMAIN bank_cache
         /\ bank_cache[config.banks[k].name] =
              StoredBank(config.banks[k].name)[1].bank_id
         /\ mappings[1][config.banks[k].code] =
              StoredBank(config.banks[k].name)[1].bank_id
    /\ \A k \in DOMAIN mappings : mappings[k] = mappings[1]

\* load_banks has succeeded twice with a configuration that names one bank
\* under two codes, on a table that did not hold the bank.
C29_Witness ==
  /\ pc = "idle"
  /\ Len(mappings) = 2
  /\ config.banks = <<CBE, CBE2>>
  /\ Len(banks_table) = 1
  /\ bank_seq = 2
  /\ DOMAIN mappings[2] = {"CBE", "CBE2"}

\* -------------------------------------------------- DataCollectionPipeline
\* src/pipeline/data_collection_pipeline.py: the five stage methods, called
\* in any order by the user of the pipeline (run calls them in the order
\* collect, save raw, preprocess, validate, save processed).  A store holds
\* Missing for None and <<table>> for a DataFrame.

\* What collect_data can bring back: no review, two reviews that differ in
\* whitespace only, a review without bank next to a good one.
CollectedTables ==
  {<<>>,
   <<RawRow(<<"Great app!">>, 5, <<"2025-01-01">>, <<"CBE">>, <<"user1">>),
     RawRow(<<"Great  app!">>, 5, <<"2025/01/01">>, <<"CBE">>, <<"user1">>)>>,
   <<RawRow(<<"Not bad">>, 6, <<"2025-13-04">>, Missing, <<"user4">>),
     RawRow(<<"Bad app">>, 1, <<"2025-01-02T10:00:00">>, <<"BOA">>, <<"user2">>)>>}

\* The rows that repeat the review and the bank of an earlier row.
DuplicatedRows(table) ==
  {i \in 1..Len(table) :
     \E j \in 1..(i - 1) : /\ table[j].review = table[i].review
                           /\ table[j].bank = table[i].bank}

\* DataPreprocessor.validate_data_quality of a preprocessed table, whose
\* reviews are the strings clean_text made (none of them is missing), without
\* the entries that are dictionaries per bank and without error_percentage.
validate_data_quality(table) ==
  [total_reviews |-> Len(table),
   missing_review_text |-> Len(SelectSeq(table, LAMBDA row : FALSE)),
   missing_rating |-> Len(SelectSeq(table, LAMBDA row : row.rating = None)),
   missing_date |-> Len(SelectSeq(table, LAMBDA row : row.date = Missing)),
   missing_bank |-> Len(SelectSeq(table, LAMBDA row : row.bank = Missing)),
   duplicate_reviews |-> Cardinality(DuplicatedRows(table)),
   invalid_ratings |->
     Len(SelectSeq(table, LAMBDA row : /\ row.rating # None
                                       /\ row.rating < 1 \/ row.rating > 5))]

\* What the pipeline leaves alone.
pipeFixed ==
  <<pc, insightVars, bankVars, raw_df, processed, remove_duplicates,
    cleanVars, scraperVars, dbVars>>

\* DataCollectionPipeline(config): the stores are None, nothing is written,
\* and the preprocessor has the flag of the configuration.
InitPipeline ==
  /\ pc = "pipeline"
  /\ NoInsights
  /\ NoBanks
  /\ raw_df = <<>>
  /\ processed = <<>>
  /\ remove_duplicates \in BOOLEAN
  /\ NoCleaning
  /\ NoScraping
  /\ NoDatabase
  /\ raw_data = Missing
  /\ processed_data = Missing
  /\ quality_metrics = Missing
  /\ raw_file = Missing
  /\ processed_file = Missing
  /\ called = "none"
  /\ error = "none"

\* collect_data returns: self.raw_data = df.
collect_data(table) ==
  /\ called' = "collect_data"
  /\ raw_data' = <<table>>
  /\ error' = "none"
  /\ UNCHANGED <<processed_data, quality_metrics, raw_file, processed_file,
                 pipeFixed>>

\* collect_data raises what load_existing_data or scrape_new_data raised,
\* before it assigns self.raw_data.
collect_data_raises ==
  /\ called' = "collect_data"
  /\ error' = "Exception"
  /\ UNCHANGED <<raw_data, processed_data, quality_metrics, raw_file,
                 processed_file, pipeFixed>>

\* save_raw_data
save_raw_data ==
  /\ called' = "save_raw_data"
  /\ IF raw_data = Missing
       THEN /\ error' = "ValueError"
            /\ UNCHANGED raw_file
       ELSE /\ error' = "none"
            /\ raw_file' = raw_data
  /\ UNCHANGED <<raw_data, processed_data, quality_metrics, processed_file,
                 pipeFixed>>

\* preprocess_data without its test of self.raw_data, None standing for a
\* table without rows.
preprocess_data_unguarded ==
  /\ called' = "preprocess_data"
  /\ error' = "none"
  /\ processed_data' =
       <<preprocess(IF raw_data = Missing THEN <<>> ELSE raw_data[1],
                    remove_duplicates)>>
  /\ UNCHANGED <<raw_data, quality_metrics, raw_file, processed_file,
                 pipeFixed>>

\* preprocess_data
preprocess_data ==
  /\ called' = "preprocess_data"
  /\ IF raw_data = Missing
       THEN /\ error' = "ValueError"
            /\ UNCHANGED processed_data
       ELSE /\ error' = "none"
            /\ processed_data' = <<preprocess(raw_data[1], remove_duplicates)>>
  /\ UNCHANGED <<raw_data, quality_metrics, raw_file, processed_file,
                 pipeFixed>>

\* validate_quality
validate_quality ==
  /\ called' = "validate_quality"
  /\ IF processed_data = Missing
       THEN /\ error' = "ValueError"
            /\ UNCHANGED quality_metrics
       ELSE /\ error' = "none"
            /\ quality_metrics' = <<validate_data_quality(processed_data[1])>>
  /\ UNCHANGED <<raw_data, processed_data, raw_file, processed_file,
                 pipeFixed>>

\* save_processed_data
save_processed_data ==
  /\ called' = "save_processed_data"
  /\ IF processed_data = Missing
       THEN /\ error' = "ValueError"
            /\ UNCHANGED processed_file
       ELSE /\ error' = "none"
            /\ processed_file' = processed_data
  /\ UNCHANGED <<raw_data, processed_data, quality_metrics, raw_file,
                 pipeFixed>>

NextPipeline ==
  \/ \E table \in CollectedTables : collect_data(table)
  \/ collect_data_raises
  \/ save_raw_data
  \/ preprocess_data
  \/ validate_quality
  \/ save_processed_data

SpecPipeline == InitPipeline /\ [][NextPipeline]_vars

\* A call of a stage method whose earlier stage has not completed ends with
\* ValueError and leaves the three stores as they were.
StageGuard ==
  /\ called' \in {"save_raw_data", "preprocess_data"} /\ raw_data = Missing =>
       /\ error' = "ValueError"
       /\ UNCHANGED <<raw_data, processed_data, quality_metrics>>
  /\ /\ called' \in {"validate_quality", "save_processed_data"}
     /\ processed_data = Missing
     => /\ error' = "ValueError"
        /\ UNCHANGED <<raw_data, processed_data, quality_metrics>>

\* C26: save_raw_data and preprocess_data raise ValueError unless collect_data
\* has completed, validate_quality and save_processed_data raise ValueError
\* unless preprocess_data has completed, such a call leaves raw_data,
\* processed_data and quality_metrics unchanged, and in every state
\* processed_data is set only if raw_data is and quality_metrics only if
\* processed_data is.
C26_StageOrder ==
  /\ [](processed_data # Missing => raw_data # Missing)
  /\ [](quality_metrics # Missing => processed_data # Missing)
  /\ [](error = "ValueError" /\ called \in {"save_raw_data", "preprocess_data"}
          => raw_data = Missing)
  /\ [](error = "ValueError"
          /\ called \in {"validate_quality", "save_processed_data"}
          => processed_data = Missing)
  /\ [][StageGuard]_vars

\* The raw data were collected and saved, and validate_quality, called before
\* preprocess_data, has raised ValueError.
C26_Witness ==
  /\ called = "validate_quality"
  /\ error = "ValueError"
  /\ raw_data # Missing
  /\ raw_file = raw_data
  /\ processed_data = Missing
  /\ quality_metrics = Missing

====
